---- MODULE Spec2Model ----
(***************************************************************************)
(* A model of the research agent: the orchestrator LocalResearchAgent      *)
(* (src/src/agent.py), the search adapter LocalSearchTool in its later,    *)
(* effective definition (src/src/tools/local_search.py, lines 207-369) and *)
(* the backend client LocalLLM (src/src/tools/local_llm.py).               *)
(*                                                                         *)
(* Conventions.  A relevance_score is an integer number of tenths (9 is    *)
(* 0.9).  A float computed by _calculate_confidence is an exact rational   *)
(* <<numerator, denominator>>.  A string the program builds by formatting  *)
(* is a record naming the template and what was formatted into it.         *)
(* research_time (wall clock) is left out of a ResearchResult.             *)
(***************************************************************************)
EXTENDS Integers, Sequences, FiniteSets, TLC

VARIABLES
    model_loaded,      \* LocalLLM.model_loaded, set by the health probe
    engines,           \* LocalSearchTool.engines: provider -> available
    settings,          \* the settings object's provider enable flags
    research_history,  \* the agent's list object self.research_history
    pc,                \* where the research call in flight stands
    query,             \* research's argument
    max_sources,       \* research's local after the default was applied
    all_sources,       \* search's all_sources in the call in flight (or the last)
    found,             \* what search returned in that call
    fault_at,          \* the stage of that call a fault left, or "none"
    sources,           \* the working list: sources / enhanced / best
    idx,               \* _enhance_sources' loop index
    report,            \* research's local
    citations,         \* research's local
    stages,            \* the stages the call in flight (or the last) ran
    enhance_log,       \* what _enhance_sources did to each source, in order
    outcome,           \* how the last call ended: none, returned, raised
    last_result,       \* what the last call returned
    history_at_call,   \* research_history when the last call started
    returned_lists,    \* list objects callers hold from get_research_history
    fn_sources,        \* argument of the function under study
    fn_max,            \* argument of the function under study
    fn_args,           \* its other arguments and what its collaborators answer
    fn_out,            \* its result
    fn_done,           \* whether it was applied
    rl_max,            \* RateLimiter.max_requests
    rl_requests,       \* RateLimiter.requests
    rl_clock,          \* time.time(), in seconds
    rl_pc,             \* where the wait call in flight stands
    rl_now,            \* wait's local now
    rl_sleep,          \* wait's local sleep_time
    rl_log             \* the wait calls that returned, in order

vars == <<model_loaded, engines, settings, research_history, pc, query,
          max_sources, all_sources, found, fault_at, sources, idx, report,
          citations, stages, enhance_log, outcome, last_result,
          history_at_call, returned_lists, fn_sources, fn_max, fn_args,
          fn_out, fn_done,
          rl_max, rl_requests, rl_clock, rl_pc, rl_now, rl_sleep, rl_log>>

agent_vars == <<model_loaded, engines, settings, research_history, pc, query,
                max_sources, all_sources, found, fault_at, sources, idx,
                report, citations, stages, enhance_log, outcome, last_result,
                history_at_call>>

fn_vars == <<fn_sources, fn_max, fn_args, fn_out, fn_done>>

rl_vars == <<rl_max, rl_requests, rl_clock, rl_pc, rl_now, rl_sleep, rl_log>>

----------------------------------------------------------------------------
(* Bounds of the exploration *)

\* research calls are started while the history is shorter than this
MaxRuns == 1

\* the same, in the specification of the history and its copies
MaxHistory == 1

\* length of the lists _filter_best_sources is studied on
MaxFilterLen == 3

\* length of the lists _calculate_confidence is studied on
MaxConfLen == 6

\* wait calls made on the rate limiter under study
MaxWaits == 3

\* the clock reading, in seconds, past which no caller lets time go by
MaxClock == 120

----------------------------------------------------------------------------
(* Settings *)

DEFAULT_MAX_SOURCES == 7
REQUESTS_PER_MINUTE == 20

\* the enable flags as config/settings.py ships them
DefaultSettings == [ENABLE_ARXIV |-> TRUE, ENABLE_WIKIPEDIA |-> TRUE]

\* settings.ENABLE_ARXIV, settings.ENABLE_WIKIPEDIA as search reads them
ENABLE_ARXIV == settings.ENABLE_ARXIV
ENABLE_WIKIPEDIA == settings.ENABLE_WIKIPEDIA

----------------------------------------------------------------------------
(* Python helpers *)

Range(s) == {s[i] : i \in 1..Len(s)}

Min(a, b) == IF a <= b THEN a ELSE b
Max(a, b) == IF a >= b THEN a ELSE b

\* s[:k], for any integer k
PySliceTo(s, k) ==
    IF k >= 0 THEN SubSeq(s, 1, Min(k, Len(s)))
    ELSE SubSeq(s, 1, Max(Len(s) + k, 0))

\* a // b for b > 0
FloorDiv(a, b) == a \div b

RECURSIVE GCD(_, _)
GCD(a, b) == IF b = 0 THEN a ELSE GCD(b, a % b)

\* rationals <<n, d>> with d > 0, kept in lowest terms
Norm(r) ==
    LET g == GCD(IF r[1] < 0 THEN -r[1] ELSE r[1], r[2])
    IN  IF g = 0 THEN r ELSE <<r[1] \div g, r[2] \div g>>
RAdd(a, b) == Norm(<<a[1] * b[2] + b[1] * a[2], a[2] * b[2]>>)
RMul(a, b) == Norm(<<a[1] * b[1], a[2] * b[2]>>)
RLeq(a, b) == a[1] * b[2] <= b[1] * a[2]

\* a build that wrote max for min
r_max_for_min(a, b) == IF RLeq(b, a) THEN a ELSE b

\* min(a, b) on floats
RMin(a, b) == IF RLeq(b, a) THEN b ELSE a

----------------------------------------------------------------------------
(* Source and ResearchResult *)

Source(title, url, content, relevance_score, source_type) ==
    [title |-> title, url |-> url, content |-> content,
     relevance_score |-> relevance_score, source_type |-> source_type]

ResearchResult(q, rep, srcs, cits, conf) ==
    [query |-> q, report |-> rep, sources |-> srcs, citations |-> cits,
     confidence_score |-> conf]

----------------------------------------------------------------------------
(* LocalResearchAgent._filter_best_sources *)

\* the insertion of a sort that puts x before the elements it ties with
RECURSIVE insert_before_ties(_, _)
insert_before_ties(sorted, x) ==
    IF sorted = <<>> THEN <<x>>
    ELSE IF Head(sorted).relevance_score > x.relevance_score
         THEN <<Head(sorted)>> \o insert_before_ties(Tail(sorted), x)
         ELSE <<x>> \o sorted

\* sorted(..., reverse=True) is stable: x goes behind every element whose
\* key is at least its own
RECURSIVE InsertByRelevance(_, _)
InsertByRelevance(sorted, x) ==
    IF sorted = <<>> THEN <<x>>
    ELSE IF Head(sorted).relevance_score >= x.relevance_score
         THEN <<Head(sorted)>> \o InsertByRelevance(Tail(sorted), x)
         ELSE <<x>> \o sorted

RECURSIVE SortedByRelevance(_)
SortedByRelevance(s) ==
    IF s = <<>> THEN <<>>
    ELSE InsertByRelevance(SortedByRelevance(SubSeq(s, 1, Len(s) - 1)),
                           s[Len(s)])

\* the sort of a build that sorts ascending
RECURSIVE SortedAscending(_)
SortedAscending(s) ==
    IF s = <<>> THEN <<>>
    ELSE LET rest == SortedAscending(Tail(s))
             le == SelectSeq(rest, LAMBDA y : y.relevance_score <= Head(s).relevance_score)
             gt == SelectSeq(rest, LAMBDA y : y.relevance_score > Head(s).relevance_score)
         IN  le \o <<Head(s)>> \o gt

filter_ascending(srcs, k) == PySliceTo(SortedAscending(srcs), k)

_filter_best_sources(srcs, k) == PySliceTo(SortedByRelevance(srcs), k)

----------------------------------------------------------------------------
(* LocalResearchAgent._calculate_confidence *)

RECURSIVE SumRelevance(_)
SumRelevance(s) ==
    IF s = <<>> THEN 0 ELSE Head(s).relevance_score + SumRelevance(Tail(s))

\* a build whose academic bonus is not capped at 0.2
confidence_uncapped_bonus(srcs) ==
    IF srcs = <<>> THEN <<0, 1>>
    ELSE LET n == Len(srcs)
             avg_relevance == <<SumRelevance(srcs), 10 * n>>
             source_types == Cardinality({srcs[i].source_type : i \in 1..n})
             diversity_score == RMin(<<source_types, 3>>, <<1, 1>>)
             count_score == RMin(<<n, 5>>, <<1, 1>>)
             academic_count ==
                 Cardinality({i \in 1..n : srcs[i].source_type = "academic"})
             academic_bonus == <<academic_count, n>>
             confidence ==
                 RAdd(RAdd(RAdd(RMul(avg_relevance, <<4, 10>>),
                                RMul(diversity_score, <<2, 10>>)),
                           RMul(count_score, <<2, 10>>)),
                      RMul(academic_bonus, <<2, 10>>))
         IN  confidence

_calculate_confidence(srcs) ==
    IF srcs = <<>> THEN <<0, 1>>
    ELSE LET n == Len(srcs)
             avg_relevance == <<SumRelevance(srcs), 10 * n>>
             source_types == Cardinality({srcs[i].source_type : i \in 1..n})
             diversity_score == RMin(<<source_types, 3>>, <<1, 1>>)
             count_score == RMin(<<n, 5>>, <<1, 1>>)
             academic_count ==
                 Cardinality({i \in 1..n : srcs[i].source_type = "academic"})
             academic_bonus == RMin(<<academic_count, n>>, <<2, 10>>)
             confidence ==
                 RAdd(RAdd(RAdd(RMul(avg_relevance, <<4, 10>>),
                                RMul(diversity_score, <<2, 10>>)),
                           RMul(count_score, <<2, 10>>)),
                      RMul(academic_bonus, <<2, 10>>))
         IN  RMin(confidence, <<1, 1>>)

----------------------------------------------------------------------------
(* LocalSearchTool: the definition in effect (lines 207-369) *)

\* urls a provider's hits resolve to, in the order it yields them; a
\* provider that fails part-way has yielded a prefix (the sets are
\* prefix-closed), and the same page reached twice gives the same url
ArxivAnswers == {<<>>, <<"u1">>, <<"u1", "u2">>}
WikipediaAnswers == {<<>>, <<"u1">>, <<"u2">>, <<"u2", "u2">>}

\* what a provider may yield when asked for max_results hits: at most that
\* many when the request is for one or more; a request for zero or fewer
\* is answered as the library sees fit
ProviderYields(answers, max_results) ==
    IF max_results >= 1 THEN {a \in answers : Len(a) <= max_results}
    ELSE answers

_search_arxiv(hits) ==
    [i \in 1..Len(hits) |->
        Source(<<"paper", hits[i]>>, hits[i], "summary", 9, "academic")]

_search_wikipedia(hits) ==
    [i \in 1..Len(hits) |->
        Source(<<"page", hits[i]>>, hits[i], "summary", 7, "encyclopedia")]

DemoIntroUrl == "https://demo.example.com/intro"
DemoAcademicUrl == "https://demo.example.com/academic"

_get_demo_sources(q) ==
    << Source(<<"Introduction to", q>>, DemoIntroUrl, "demo", 7, "web"),
       Source(<<"Academic Research on", q>>, DemoAcademicUrl, "demo", 8,
              "academic") >>

\* a build that appends every source, seen or not
remove_duplicates_keep_all(srcs) == srcs

\* the loop over sources with its seen_urls set
RECURSIVE RemoveDuplicatesFrom(_, _, _)
RemoveDuplicatesFrom(srcs, seen_urls, unique_sources) ==
    IF srcs = <<>> THEN unique_sources
    ELSE IF Head(srcs).url \notin seen_urls
         THEN RemoveDuplicatesFrom(Tail(srcs), seen_urls \cup {Head(srcs).url},
                                   Append(unique_sources, Head(srcs)))
         ELSE RemoveDuplicatesFrom(Tail(srcs), seen_urls, unique_sources)

_remove_duplicates(srcs) == RemoveDuplicatesFrom(srcs, {}, <<>>)

\* any(self.engines.values()); engines['duckduckgo'] is always False
AnyEngine == engines.duckduckgo \/ engines.arxiv \/ engines.wikipedia

\* the two provider blocks of search: all_sources
search_gather(arxiv_hits, wikipedia_hits) ==
    (IF engines.arxiv /\ ENABLE_ARXIV
        THEN _search_arxiv(arxiv_hits) ELSE <<>>)
    \o (IF engines.wikipedia /\ ENABLE_WIKIPEDIA
        THEN _search_wikipedia(wikipedia_hits) ELSE <<>>)

\* a build that falls back to the demo data whenever nothing was gathered
search_return_demo_when_empty(q, max_results, gathered) ==
    IF gathered = <<>> THEN _get_demo_sources(q)
    ELSE PySliceTo(_remove_duplicates(gathered), max_results)

\* the rest of search: demo data, or the unique sources cut to max_results
search_return(q, max_results, gathered) ==
    IF gathered = <<>> /\ ~AnyEngine THEN _get_demo_sources(q)
    ELSE PySliceTo(_remove_duplicates(gathered), max_results)

\* lines 234-251 as one function of what the providers yield
search(q, max_results, arxiv_hits, wikipedia_hits) ==
    search_return(q, max_results, search_gather(arxiv_hits, wikipedia_hits))

\* one call of _search_arxiv: the hits appended to its list, and whether an
\* exception then reached the handler of line 276 (from the client, from
\* the iteration over its results, or from building a Source); the list
\* filled so far is what line 279 returns
ArxivRuns(max_results) ==
    {[asked |-> max_results, hits |-> h, raised |-> r] :
        h \in ProviderYields(ArxivAnswers, max_results), r \in BOOLEAN}

\* one call of _search_wikipedia: a page that fails is skipped by the
\* handler of line 298, so the handler of line 302 is reached only from
\* wikipedia.search, before the first append
WikipediaRuns(max_results) ==
    {[asked |-> max_results, hits |-> h, raised |-> FALSE] :
        h \in ProviderYields(WikipediaAnswers, max_results)}
    \cup {[asked |-> max_results, hits |-> <<>>, raised |-> TRUE]}

\* a provider search does not call
NotCalled == [asked |-> 0, hits |-> <<>>, raised |-> FALSE]

\* lines 239 and 243: what search asks of each provider it calls
provider_budget(max_results) == FloorDiv(max_results, 4)

arxiv_called == engines.arxiv /\ ENABLE_ARXIV
wikipedia_called == engines.wikipedia /\ ENABLE_WIKIPEDIA

\* __init__ sets rate_limiter and engines only: self.session does not exist
session_initialised == FALSE

ContentLen(c) == IF c = "" THEN 0 ELSE IF c = "page_text" THEN 2 ELSE 1

\* a build that fetches the page of every url
extract_content_fetches(url) == "page_text"

\* the demo url returns "" at once; elsewhere reading self.session raises
\* inside the try and the handler falls through to return ""; were there a
\* session, a page that came back would end at the name BeautifulSoup of
\* line 349, which the module never imports, and in the handler as well
extract_content(url) ==
    IF url \in {DemoIntroUrl, DemoAcademicUrl} THEN ""
    ELSE IF ~session_initialised THEN ""
    ELSE ""

\* whether a call gets as far as rate_limiter.wait() at line 344
extract_calls_wait(url) ==
    url \notin {DemoIntroUrl, DemoAcademicUrl} /\ session_initialised

----------------------------------------------------------------------------
(* RateLimiter (lines 371-385); times are whole seconds *)

\* the 60 of lines 378 and 381
Window == 60

\* line 378: the timestamps younger than the window, in order
Prune(requests, now) == SelectSeq(requests, LAMBDA t : now - t < Window)

\* a build that lets one more request through before it sleeps
limit_reached_strict(requests, max_requests) == Len(requests) > max_requests

\* line 380
limit_reached(requests, max_requests) == Len(requests) >= max_requests

\* line 381
sleep_time(requests, now) == Window - (now - requests[1])

----------------------------------------------------------------------------
(* LocalLLM: _generate_response and evaluate_source_relevance *)

\* A text is the sequence of its tokens; a token is a run of digits with
\* an optional fraction (what the pattern of line 120 matches) or anything
\* else.
Word == [number |-> FALSE, value |-> <<0, 1>>]
Num(n, d) == [number |-> TRUE, value |-> Norm(<<n, d>>)]

\* max(a, b) on floats
RMax(a, b) == IF RLeq(a, b) THEN b ELSE a

\* line 137
NotConnectedText == <<Word, Word, Word, Word, Word>>

\* line 195
CouldNotGetText == <<Word, Word, Word, Word, Word, Word, Word, Word, Word>>

\* line 199: the fixed words, then str(e)
ErrorGeneratingText(e) == <<Word, Word, Word, Word>> \o e

\* str(e) of result['choices'][0] on an empty list: IndexError,
\* "list index out of range"
IndexErrorText == <<Word, Word, Word, Word, Word>>

\* str(e) of result['choices'][0] on an object: KeyError(0), "0"
KeyErrorText == <<Num(0, 1)>>

\* lines 161-166
Endpoints == <<"/v1/completions", "/completions", "/generate",
               "/api/generate">>

\* the fields lines 181-188 probe
RecognisedFields == {"choices", "response", "generated_text", "text"}

\* answers after which the loop goes on to the next endpoint: the post
\* raised a RequestException (line 192), the status was not 200 (line
\* 177), the body had none of the probed fields (line 190)
PassedOver == {"request_exception", "status", "unknown"}

\* lines 168-195 from one endpoint on, and the handler of lines 197-199
RECURSIVE try_endpoints(_)
try_endpoints(answers) ==
    IF answers = <<>> THEN CouldNotGetText
    ELSE IF Head(answers).kind \in PassedOver
         THEN try_endpoints(Tail(answers))
         ELSE IF Head(answers).kind \in RecognisedFields
              THEN Head(answers).text
              ELSE IF Head(answers).kind = "choices_empty"
                   THEN ErrorGeneratingText(IndexErrorText)
                   ELSE ErrorGeneratingText(KeyErrorText)

\* lines 133-199
_generate_response(answers) ==
    IF ~model_loaded THEN NotConnectedText ELSE try_endpoints(answers)

\* str.lower on the words in use
Lower(w) ==
    IF w = "Solar" THEN "solar" ELSE IF w = "Energy" THEN "energy" ELSE w

\* a build that splits without lowering the case
word_set_as_written(words) == {words[i] : i \in 1..Len(words)}

\* set(text.lower().split()), a text being given as its words
WordSet(words) == {Lower(words[i]) : i \in 1..Len(words)}

\* lines 96-99 and 128-131
keyword_overlap(q, source_content) ==
    LET query_words == WordSet(q)
        content_words == WordSet(source_content)
        overlap == Cardinality(query_words \cap content_words)
    IN  IF query_words # {}
        THEN RMin(Norm(<<overlap, Cardinality(query_words)>>), <<1, 1>>)
        ELSE <<0, 1>>

\* re.search(r'(\d+\.?\d*)', response): the tokens that match, in order
re_search(response) == SelectSeq(response, LAMBDA t : t.number)

\* lines 91-131
evaluate_source_relevance(q, source_content, answers) ==
    IF ~model_loaded THEN keyword_overlap(q, source_content)
    ELSE LET match == re_search(_generate_response(answers))
         IN  IF match # <<>>
             THEN RMax(<<0, 1>>, RMin(<<1, 1>>, match[1].value))
             ELSE keyword_overlap(q, source_content)

----------------------------------------------------------------------------
(* LocalResearchAgent: the stages of research *)

Queries == {"renewable energy"}

\* values of the max_sources argument; 0 stands for every falsy value
\* (None, 0), which line 55 replaces by the default, and 3 is the value
\* main.py passes
MaxSourcesInputs == {-1, 0, 3}

\* scores the backend's answer parses to, besides a call that raises
EvalScores == {2}

\* how one source's citation goes: the backend's text, the backend's
\* error text, the type's template, a fault inside the try block
CiteOutcomes ==
    IF model_loaded THEN {"text", "error_text", "fault"}
    ELSE {"template", "fault"}

\* what generate_research_summary returns when the model is loaded
SummaryOutcomes == {"text", "error_text"}

StageNames == {"search", "enhance", "filter", "report", "citations",
               "confidence"}

NoSourcesReport == [kind |-> "no_sources_found"]
FailedReport(stage) == [kind |-> "research_failed", error |-> stage]

\* the caller's variable before research has returned
NoResult == ResearchResult("", NoSourcesReport, <<>>, <<>>, <<0, 1>>)

\* whether evaluate_source_relevance may raise: it is called only with the
\* model loaded (line 133)
EvalFaults == IF model_loaded THEN BOOLEAN ELSE {FALSE}

\* lines 125-131: the fetch was tried and gave nothing to extend with
extract_fails(source) ==
    source.source_type = "web" /\ extract_content(source.url) = ""

\* a build that re-scores whether or not the model is loaded
enhance_one_always_scores(source, q, eval_raises, eval_score) ==
    IF eval_raises THEN source
    ELSE [source EXCEPT !.relevance_score = eval_score]

\* a build whose handler zeroes the score of a source it could not re-score
enhance_one_reset_score(source, q, eval_raises, eval_score) ==
    IF model_loaded
    THEN [source EXCEPT !.relevance_score =
             IF eval_raises THEN 0 ELSE eval_score]
    ELSE source

\* lines 125-138, one pass of the loop body
enhance_one(source, q, eval_raises, eval_score) ==
    LET full_content == extract_content(source.url)
        s1 == IF /\ source.source_type = "web"
                 /\ full_content # ""
                 /\ ContentLen(full_content) > ContentLen(source.content)
              THEN [source EXCEPT !.content = full_content]
              ELSE source
    IN  IF model_loaded /\ ~eval_raises
        THEN [s1 EXCEPT !.relevance_score = eval_score]
        ELSE s1

\* lines 148-175
_generate_report(q, srcs, summary) ==
    IF srcs = <<>> THEN [kind |-> "no_sources_available"]
    ELSE IF model_loaded
         THEN IF summary = "text"
              THEN [kind |-> "llm_report", query |-> q]
              ELSE [kind |-> "backend_error"]
         ELSE [kind |-> "template_report", query |-> q,
               findings |-> [i \in 1..Len(srcs) |->
                   [title |-> srcs[i].title,
                    source_type |-> srcs[i].source_type,
                    relevance |-> srcs[i].relevance_score,
                    content |-> srcs[i].content]]]

\* a build whose template ignores the source's type
cite_one_untyped(source, how) ==
    IF how = "fault"
    THEN <<[kind |-> "citation_error", title |-> source.title]>>
    ELSE <<[kind |-> "template_citation", publisher |-> "",
            title |-> source.title, url |-> source.url]>>

\* lines 181-206, one pass of the loop body: the citations it appends
cite_one(source, how) ==
    IF how = "fault"
    THEN <<[kind |-> "citation_error", title |-> source.title]>>
    ELSE IF model_loaded
         THEN IF how = "text"
              THEN <<[kind |-> "llm_citation", title |-> source.title,
                      url |-> source.url]>>
              ELSE <<[kind |-> "backend_error", title |-> source.title,
                      url |-> source.url]>>
         ELSE <<[kind |-> "template_citation",
                 publisher |-> IF source.source_type = "academic"
                               THEN "arXiv"
                               ELSE IF source.source_type = "encyclopedia"
                                    THEN "Wikipedia" ELSE "",
                 title |-> source.title, url |-> source.url]>>

\* a build whose handler swallows the fault and appends nothing
RECURSIVE generate_citations_swallow(_, _)
generate_citations_swallow(srcs, hows) ==
    IF srcs = <<>> THEN <<>>
    ELSE (IF Head(hows) = "fault" THEN <<>>
          ELSE cite_one(Head(srcs), Head(hows)))
         \o generate_citations_swallow(Tail(srcs), Tail(hows))

\* a build whose handler leaves the loop after the placeholder
RECURSIVE generate_citations_abort(_, _)
generate_citations_abort(srcs, hows) ==
    IF srcs = <<>> THEN <<>>
    ELSE IF Head(hows) = "fault" THEN cite_one(Head(srcs), "fault")
         ELSE cite_one(Head(srcs), Head(hows))
              \o generate_citations_abort(Tail(srcs), Tail(hows))

RECURSIVE _generate_citations(_, _)
_generate_citations(srcs, hows) ==
    IF srcs = <<>> THEN <<>>
    ELSE cite_one(Head(srcs), Head(hows))
         \o _generate_citations(Tail(srcs), Tail(hows))

\* a build whose try block starts after the search
try_after_search(stage) == stage # "search"

\* lines 60-108: the try block holds every stage
TryCovers(stage) == stage \in StageNames

\* a return statement: the locals are gone
Return(result) ==
    /\ last_result' = result
    /\ outcome' = "returned"
    /\ pc' = "idle"
    /\ sources' = <<>>
    /\ idx' = 0
    /\ report' = NoSourcesReport
    /\ citations' = <<>>

\* a fault in a stage: lines 108-117 when the try block holds the stage,
\* else the fault leaves research
Fault(stage) ==
    /\ stages' = IF stage \in Range(stages) THEN stages
                 ELSE Append(stages, stage)
    /\ fault_at' = stage
    /\ UNCHANGED <<research_history, all_sources, found>>
    /\ IF TryCovers(stage)
       THEN Return(ResearchResult(query, FailedReport(stage), <<>>, <<>>,
                                  <<0, 1>>))
       ELSE /\ outcome' = "raised"
            /\ last_result' = NoResult
            /\ pc' = "idle"
            /\ sources' = <<>>
            /\ idx' = 0
            /\ report' = NoSourcesReport
            /\ citations' = <<>>

\* bookkeeping for the lists callers hold: a research call has started,
\* or has appended, since they were returned
NoLongerFresh ==
    [c \in DOMAIN returned_lists |->
        [returned_lists[c] EXCEPT !.fresh = FALSE]]

\* lines 53-58
StartResearch(bound) ==
    /\ pc = "idle"
    /\ Len(research_history) < bound
    /\ \E q \in Queries, ms \in MaxSourcesInputs :
        /\ query' = q
        /\ max_sources' = IF ms = 0 THEN DEFAULT_MAX_SOURCES ELSE ms
    /\ pc' = "search"
    /\ stages' = <<>>
    /\ outcome' = "none"
    /\ last_result' = NoResult
    /\ history_at_call' = research_history
    /\ returned_lists' = NoLongerFresh
    /\ all_sources' = <<>>
    /\ found' = <<>>
    /\ fault_at' = "none"
    /\ enhance_log' = <<>>
    /\ UNCHANGED <<model_loaded, engines, settings, research_history,
                   sources, idx, report, citations, fn_vars, rl_vars>>

\* a build without the check of line 64
short_circuit_never(srcs) == FALSE

\* line 64: if not sources
short_circuit(srcs) == srcs = <<>>

\* lines 61-74, with LocalSearchTool.search
Search ==
    /\ pc = "search"
    /\ UNCHANGED <<model_loaded, engines, settings, query, max_sources,
                   enhance_log, history_at_call, returned_lists, fn_vars,
                   rl_vars>>
    /\ \E fault \in BOOLEAN :
        IF fault THEN Fault("search")
        ELSE \E a \in ProviderYields(ArxivAnswers,
                                     provider_budget(max_sources)),
                w \in ProviderYields(WikipediaAnswers,
                                     provider_budget(max_sources)) :
            LET gathered == search_gather(a, w)
                returned == search_return(query, max_sources, gathered)
            IN  /\ stages' = Append(stages, "search")
                /\ all_sources' = gathered
                /\ found' = returned
                /\ UNCHANGED <<research_history, fault_at>>
                /\ IF short_circuit(returned)
                   THEN Return(ResearchResult(query, NoSourcesReport, <<>>,
                                              <<>>, <<0, 1>>))
                   ELSE /\ sources' = returned
                        /\ idx' = 1
                        /\ pc' = "enhance"
                        /\ UNCHANGED <<report, citations, outcome,
                                       last_result>>

\* a build whose loop is left after the first source
enhance_first_only ==
    /\ pc = "enhance"
    /\ UNCHANGED <<model_loaded, engines, settings, query, max_sources,
                   history_at_call, returned_lists, fn_vars, rl_vars>>
    /\ \E eval_raises \in EvalFaults, eval_score \in EvalScores :
        /\ sources' = [sources EXCEPT ![1] =
               enhance_one(sources[1], query, eval_raises, eval_score)]
        /\ enhance_log' =
               <<[before |-> sources[1],
                  after |-> enhance_one(sources[1], query, eval_raises,
                                        eval_score),
                  extract_failed |-> extract_fails(sources[1]),
                  eval_raised |-> eval_raises]>>
        /\ idx' = 2
        /\ pc' = "filter"
        /\ stages' = Append(stages, "enhance")
        /\ UNCHANGED <<research_history, all_sources, found, fault_at,
                       report, citations, outcome, last_result>>

\* a build that leaves out a source whose re-scoring raised
enhance_drops_unscored ==
    /\ pc = "enhance"
    /\ UNCHANGED <<model_loaded, engines, settings, query, max_sources,
                   history_at_call, returned_lists, fn_vars, rl_vars>>
    /\ \E eval_raises \in EvalFaults, eval_score \in EvalScores :
        /\ sources' =
               IF idx > Len(sources) THEN sources
               ELSE IF eval_raises
                    THEN SubSeq(sources, 1, idx - 1)
                         \o SubSeq(sources, idx + 1, Len(sources))
                    ELSE [sources EXCEPT ![idx] =
                             enhance_one(sources[idx], query, eval_raises,
                                         eval_score)]
        /\ enhance_log' =
               IF idx <= Len(sources)
               THEN Append(enhance_log,
                        [before |-> sources[idx],
                         after |-> enhance_one(sources[idx], query,
                                               eval_raises, eval_score),
                         extract_failed |-> extract_fails(sources[idx]),
                         eval_raised |-> eval_raises])
               ELSE enhance_log
        /\ idx' = IF eval_raises THEN idx ELSE idx + 1
        /\ pc' = IF idx >= Len(sources) THEN "filter" ELSE "enhance"
        /\ stages' = IF "enhance" \in Range(stages) THEN stages
                     ELSE Append(stages, "enhance")
        /\ UNCHANGED <<research_history, all_sources, found, fault_at,
                       report, citations, outcome, last_result>>

\* lines 122-140, one source
EnhanceSource ==
    /\ pc = "enhance"
    /\ UNCHANGED <<model_loaded, engines, settings, query, max_sources,
                   history_at_call, returned_lists, fn_vars, rl_max,
                   rl_clock, rl_pc, rl_now, rl_sleep>>
    /\ IF /\ idx <= Len(sources)
          /\ sources[idx].source_type = "web"
          /\ extract_calls_wait(sources[idx].url)
       THEN /\ rl_requests' = Append(Prune(rl_requests, rl_clock), rl_clock)
            /\ rl_log' = Append(rl_log, [entered |-> rl_clock, slept |-> 0,
                                         returned |-> rl_clock])
       ELSE UNCHANGED <<rl_requests, rl_log>>
    /\ \E fault \in BOOLEAN :
        IF fault THEN Fault("enhance") /\ UNCHANGED enhance_log
        ELSE \E eval_raises \in EvalFaults, eval_score \in EvalScores :
            /\ sources' =
                   IF idx <= Len(sources)
                   THEN [sources EXCEPT ![idx] =
                            enhance_one(sources[idx], query, eval_raises,
                                        eval_score)]
                   ELSE sources
            /\ enhance_log' =
                   IF idx <= Len(sources)
                   THEN Append(enhance_log,
                            [before |-> sources[idx],
                             after |-> enhance_one(sources[idx], query,
                                                   eval_raises, eval_score),
                             extract_failed |-> extract_fails(sources[idx]),
                             eval_raised |-> eval_raises])
                   ELSE enhance_log
            /\ idx' = idx + 1
            /\ pc' = IF idx >= Len(sources) THEN "filter" ELSE "enhance"
            /\ stages' = IF idx = 1 THEN Append(stages, "enhance") ELSE stages
            /\ UNCHANGED <<research_history, all_sources, found, fault_at,
                           report, citations, outcome, last_result>>

\* line 79
FilterBest ==
    /\ pc = "filter"
    /\ UNCHANGED <<model_loaded, engines, settings, query, max_sources,
                   enhance_log, history_at_call, returned_lists, fn_vars,
                   rl_vars>>
    /\ \E fault \in BOOLEAN :
        IF fault THEN Fault("filter")
        ELSE /\ sources' = _filter_best_sources(sources, max_sources)
             /\ pc' = "report"
             /\ stages' = Append(stages, "filter")
             /\ UNCHANGED <<research_history, all_sources, found, fault_at,
                            idx, report, citations, outcome, last_result>>

\* a build that marks the backend down when the summary request fails
generate_report_marks_down ==
    /\ pc = "report"
    /\ UNCHANGED <<engines, settings, query, max_sources,
                   enhance_log, history_at_call, returned_lists, fn_vars,
                   rl_vars>>
    /\ \E fault \in BOOLEAN :
        IF fault THEN Fault("report") /\ UNCHANGED model_loaded
        ELSE \E summary \in SummaryOutcomes :
            /\ report' = _generate_report(query, sources, summary)
            /\ model_loaded' = (model_loaded /\ summary = "text")
            /\ pc' = "citations"
            /\ stages' = Append(stages, "report")
            /\ UNCHANGED <<research_history, all_sources, found, fault_at,
                           sources, idx, citations, outcome, last_result>>

\* line 83
GenerateReport ==
    /\ pc = "report"
    /\ UNCHANGED <<model_loaded, engines, settings, query, max_sources,
                   enhance_log, history_at_call, returned_lists, fn_vars,
                   rl_vars>>
    /\ \E fault \in BOOLEAN :
        IF fault THEN Fault("report")
        ELSE \E summary \in SummaryOutcomes :
            /\ report' = _generate_report(query, sources, summary)
            /\ pc' = "citations"
            /\ stages' = Append(stages, "report")
            /\ UNCHANGED <<research_history, all_sources, found, fault_at,
                           sources, idx, citations, outcome, last_result>>

\* line 86
GenerateCitations ==
    /\ pc = "citations"
    /\ UNCHANGED <<model_loaded, engines, settings, query, max_sources,
                   enhance_log, history_at_call, returned_lists, fn_vars,
                   rl_vars>>
    /\ \E fault \in BOOLEAN :
        IF fault THEN Fault("citations")
        ELSE \E hows \in [1..Len(sources) -> CiteOutcomes] :
            /\ citations' = _generate_citations(sources, hows)
            /\ pc' = "confidence"
            /\ stages' = Append(stages, "citations")
            /\ UNCHANGED <<research_history, all_sources, found, fault_at,
                           sources, idx, report, outcome, last_result>>

\* the result research assembles at lines 91-98
assemble(q, rep, srcs, cits) ==
    ResearchResult(q, rep, srcs, cits, _calculate_confidence(srcs))

\* a build that appends the result first and fills in its citations and
\* confidence afterwards
finish_appends_unfinished ==
    /\ pc = "confidence"
    /\ UNCHANGED <<model_loaded, engines, settings, query, max_sources,
                   enhance_log, history_at_call, fn_vars, rl_vars>>
    /\ \E fault \in BOOLEAN :
        IF fault THEN Fault("confidence") /\ UNCHANGED returned_lists
        ELSE LET result == assemble(query, report, sources, citations)
             IN  /\ research_history' =
                        Append(research_history,
                               ResearchResult(query, report, sources, <<>>,
                                              <<0, 1>>))
                 /\ returned_lists' = NoLongerFresh
                 /\ stages' = Append(stages, "confidence")
                 /\ UNCHANGED <<all_sources, found, fault_at>>
                 /\ Return(result)

\* lines 88-106
Finish ==
    /\ pc = "confidence"
    /\ UNCHANGED <<model_loaded, engines, settings, query, max_sources,
                   enhance_log, history_at_call, fn_vars, rl_vars>>
    /\ \E fault \in BOOLEAN :
        IF fault THEN Fault("confidence") /\ UNCHANGED returned_lists
        ELSE LET result == assemble(query, report, sources, citations)
             IN  /\ research_history' = Append(research_history, result)
                 /\ returned_lists' = NoLongerFresh
                 /\ stages' = Append(stages, "confidence")
                 /\ UNCHANGED <<all_sources, found, fault_at>>
                 /\ Return(result)

\* get_model_status reads llm.model_loaded and search_tool and writes nothing
GetModelStatus ==
    /\ UNCHANGED vars

Callers == {"c1", "c2"}

\* what a caller holds: no list, or the list object a call returned.  alias
\* says the object is self.research_history itself, whose content is then
\* read through the agent; items is the content of an object of its own;
\* returned is the value the call returned and fresh says that no research
\* call has started since
NoList ==
    [held |-> FALSE, alias |-> FALSE, items |-> <<>>, mutated |-> FALSE,
     returned |-> <<>>, fresh |-> FALSE]

ListOf(h) == IF h.alias THEN research_history ELSE h.items

\* a build that returns the list itself
get_history_no_copy ==
    [held |-> TRUE, alias |-> TRUE, items |-> <<>>, mutated |-> FALSE,
     returned |-> research_history, fresh |-> TRUE]

\* line 225: self.research_history.copy() is a new list object
get_research_history ==
    [held |-> TRUE, alias |-> FALSE, items |-> research_history,
     mutated |-> FALSE, returned |-> research_history, fresh |-> TRUE]

GetHistory(c) ==
    /\ ~returned_lists[c].held
    /\ returned_lists' = [returned_lists EXCEPT ![c] = get_research_history]
    /\ UNCHANGED <<agent_vars, fn_vars, rl_vars>>

Reverse(s) == [i \in 1..Len(s) |-> s[Len(s) + 1 - i]]

ListOps == {"append", "pop", "reverse"}

ListOp(s, op) ==
    IF op = "append" THEN Append(s, NoResult)
    ELSE IF op = "pop" THEN SubSeq(s, 1, Len(s) - 1)
    ELSE Reverse(s)

\* a caller adds to, removes from or reorders the list object it holds
CallerMutate(c) ==
    /\ returned_lists[c].held
    /\ ~returned_lists[c].mutated
    /\ \E op \in ListOps :
        /\ op = "pop" => ListOf(returned_lists[c]) # <<>>
        /\ IF returned_lists[c].alias
           THEN /\ research_history' = ListOp(research_history, op)
                /\ returned_lists' =
                       [returned_lists EXCEPT ![c].mutated = TRUE]
           ELSE /\ returned_lists' =
                       [returned_lists EXCEPT
                           ![c].mutated = TRUE,
                           ![c].items = ListOp(returned_lists[c].items, op)]
                /\ UNCHANGED research_history
    /\ UNCHANGED <<model_loaded, engines, settings, pc, query, max_sources,
                   all_sources, found, fault_at, sources, idx, report,
                   citations, stages, enhance_log, outcome, last_result,
                   history_at_call, fn_vars, rl_vars>>

\* a caller lets go of the list it holds
DropList(c) ==
    /\ returned_lists[c].held
    /\ returned_lists' = [returned_lists EXCEPT ![c] = NoList]
    /\ UNCHANGED <<agent_vars, fn_vars, rl_vars>>

\* LocalResearchAgent.__init__, LocalLLM.__init__, LocalSearchTool.__init__
AgentInit ==
    /\ model_loaded \in BOOLEAN
    /\ engines \in [duckduckgo : {FALSE}, arxiv : BOOLEAN, wikipedia : BOOLEAN]
    /\ research_history = <<>>
    /\ pc = "idle"
    /\ query = ""
    /\ max_sources = DEFAULT_MAX_SOURCES
    /\ all_sources = <<>>
    /\ found = <<>>
    /\ fault_at = "none"
    /\ sources = <<>>
    /\ idx = 0
    /\ report = NoSourcesReport
    /\ citations = <<>>
    /\ stages = <<>>
    /\ enhance_log = <<>>
    /\ outcome = "none"
    /\ last_result = NoResult
    /\ history_at_call = <<>>
    /\ returned_lists = [c \in Callers |-> NoList]

\* no function is under study
NoArgs == [query |-> ""]

FnIdle ==
    /\ fn_sources = <<>>
    /\ fn_max = 0
    /\ fn_args = NoArgs
    /\ fn_out = <<>>
    /\ fn_done = FALSE

\* RateLimiter(settings.REQUESTS_PER_MINUTE), which no wait call has reached
RlIdle ==
    /\ rl_max = REQUESTS_PER_MINUTE
    /\ rl_requests = <<>>
    /\ rl_clock = 0
    /\ rl_pc = "idle"
    /\ rl_now = 0
    /\ rl_sleep = 0
    /\ rl_log = <<>>

Init == AgentInit /\ settings = DefaultSettings /\ FnIdle /\ RlIdle

Next ==
    \/ StartResearch(MaxRuns)
    \/ Search
    \/ EnhanceSource
    \/ FilterBest
    \/ GenerateReport
    \/ GenerateCitations
    \/ Finish
    \/ GetModelStatus

Spec == Init /\ [][Next]_vars

\* the history and the lists callers hold, with the backend down and the
\* arxiv package not installed
InitHistory == Init /\ ~model_loaded /\ ~engines.arxiv

NextHistory ==
    \/ StartResearch(MaxHistory)
    \/ Search
    \/ EnhanceSource
    \/ FilterBest
    \/ GenerateReport
    \/ GenerateCitations
    \/ Finish
    \/ GetModelStatus
    \/ \E c \in Callers : GetHistory(c)
    \/ \E c \in Callers : CallerMutate(c)
    \/ \E c \in Callers : DropList(c)

SpecHistory == InitHistory /\ [][NextHistory]_vars

----------------------------------------------------------------------------
(* The pure functions on their own: the agent stays as constructed *)

AgentBuilt ==
    AgentInit /\ settings = DefaultSettings /\ ~model_loaded /\ ~AnyEngine

SeqsUpTo(S, n) == UNION {[1..k -> S] : k \in 0..n}

\* sources that differ in score, and sources that tie
FilterSources ==
    { Source(<<"paper", "u1">>, "u1", "summary", 9, "academic"),
      Source(<<"paper", "u2">>, "u2", "summary", 9, "academic"),
      Source(<<"page", "u3">>, "u3", "summary", 7, "encyclopedia"),
      Source(<<"page", "u4">>, "u4", "summary", 2, "encyclopedia") }

InitFilter ==
    /\ AgentBuilt
    /\ fn_sources \in SeqsUpTo(FilterSources, MaxFilterLen)
    /\ fn_max \in (-2)..(MaxFilterLen + 1)
    /\ fn_args = NoArgs
    /\ RlIdle
    /\ fn_out = <<>>
    /\ fn_done = FALSE

ApplyFilter ==
    /\ ~fn_done
    /\ fn_out' = _filter_best_sources(fn_sources, fn_max)
    /\ fn_done' = TRUE
    /\ UNCHANGED <<agent_vars, returned_lists, fn_sources, fn_max, fn_args,
                   rl_vars>>

NextFilter == ApplyFilter

SpecFilter == InitFilter /\ [][NextFilter]_vars

\* one source of every type at the ends of the score range, and one between
ConfidenceSources ==
    { Source(<<"paper", "u1">>, "u1", "summary", 10, "academic"),
      Source(<<"page", "u2">>, "u2", "summary", 7, "encyclopedia"),
      Source(<<"Introduction to", "q">>, "u3", "demo", 10, "web"),
      Source(<<"page", "u4">>, "u4", "summary", 0, "encyclopedia") }

InitConfidence ==
    /\ AgentBuilt
    /\ fn_sources \in SeqsUpTo(ConfidenceSources, MaxConfLen)
    /\ fn_max = 0
    /\ fn_args = NoArgs
    /\ RlIdle
    /\ fn_out = <<0, 1>>
    /\ fn_done = FALSE

ApplyConfidence ==
    /\ ~fn_done
    /\ fn_out' = _calculate_confidence(fn_sources)
    /\ fn_done' = TRUE
    /\ UNCHANGED <<agent_vars, returned_lists, fn_sources, fn_max, fn_args,
                   rl_vars>>

NextConfidence == ApplyConfidence

SpecConfidence == InitConfidence /\ [][NextConfidence]_vars

----------------------------------------------------------------------------
(* LocalSearchTool.search on its own, under every setting of the flags *)

\* values of max_results: negative, below the providers' divisor, at it,
\* and twice it
SearchMaxResults == {-1, 1, 3, 4, 8}

InitSearch ==
    /\ AgentInit
    /\ ~model_loaded
    /\ settings \in [ENABLE_ARXIV : BOOLEAN, ENABLE_WIKIPEDIA : BOOLEAN]
    /\ fn_sources = <<>>
    /\ fn_max \in SearchMaxResults
    /\ fn_args \in
        {[query |-> q, arxiv |-> a, wikipedia |-> w] :
            q \in Queries,
            a \in IF arxiv_called THEN ArxivRuns(provider_budget(fn_max))
                  ELSE {NotCalled},
            w \in IF wikipedia_called
                  THEN WikipediaRuns(provider_budget(fn_max))
                  ELSE {NotCalled}}
    /\ fn_out = <<>>
    /\ fn_done = FALSE
    /\ RlIdle

ApplySearch ==
    /\ ~fn_done
    /\ fn_out' = search(fn_args.query, fn_max, fn_args.arxiv.hits,
                        fn_args.wikipedia.hits)
    /\ fn_done' = TRUE
    /\ UNCHANGED <<agent_vars, returned_lists, fn_sources, fn_max, fn_args,
                   rl_vars>>

NextSearch == ApplySearch

SpecSearch == InitSearch /\ [][NextSearch]_vars

----------------------------------------------------------------------------
(* RateLimiter on its own: one caller after another *)

\* values of max_requests_per_minute
LimiterSizes == {1, 2}

\* seconds a caller lets go by between two calls
TickSteps == {20, 60}

InitRateLimiter ==
    /\ AgentBuilt
    /\ FnIdle
    /\ rl_max \in LimiterSizes
    /\ rl_requests = <<>>
    /\ rl_clock = 0
    /\ rl_pc = "idle"
    /\ rl_now = 0
    /\ rl_sleep = 0
    /\ rl_log = <<>>

\* time goes by while no wait call is in flight
Tick ==
    /\ rl_pc = "idle"
    /\ \E d \in TickSteps :
        /\ rl_clock + d <= MaxClock
        /\ rl_clock' = rl_clock + d
    /\ UNCHANGED <<agent_vars, returned_lists, fn_vars, rl_max, rl_requests,
                   rl_pc, rl_now, rl_sleep, rl_log>>

\* lines 377-383, and line 385 when the call does not sleep
WaitEnter ==
    /\ rl_pc = "idle"
    /\ Len(rl_log) < MaxWaits
    /\ LET now == rl_clock
           kept == Prune(rl_requests, now)
       IN  IF limit_reached(kept, rl_max) /\ sleep_time(kept, now) > 0
           THEN /\ rl_requests' = kept
                /\ rl_now' = now
                /\ rl_sleep' = sleep_time(kept, now)
                /\ rl_pc' = "sleeping"
                /\ UNCHANGED rl_log
           ELSE /\ rl_requests' = Append(kept, now)
                /\ rl_log' = Append(rl_log, [entered |-> now, slept |-> 0,
                                             returned |-> now])
                /\ UNCHANGED <<rl_pc, rl_now, rl_sleep>>
    /\ UNCHANGED <<agent_vars, returned_lists, fn_vars, rl_max, rl_clock>>

\* asyncio.sleep(sleep_time) is over; line 385 appends the now of line 377
WaitResume ==
    /\ rl_pc = "sleeping"
    /\ rl_clock' = rl_now + rl_sleep
    /\ rl_requests' = Append(rl_requests, rl_now)
    /\ rl_log' = Append(rl_log, [entered |-> rl_now, slept |-> rl_sleep,
                                 returned |-> rl_now + rl_sleep])
    /\ rl_pc' = "idle"
    /\ rl_now' = 0
    /\ rl_sleep' = 0
    /\ UNCHANGED <<agent_vars, returned_lists, fn_vars, rl_max>>

NextRateLimiter ==
    \/ Tick
    \/ WaitEnter
    \/ WaitResume

SpecRateLimiter == InitRateLimiter /\ [][NextRateLimiter]_vars

----------------------------------------------------------------------------
(* One RateLimiter and several coroutines that call wait on it: a call
   runs without interruption up to its await and again after it *)

WaitCallers == {"c1", "c2"}

\* the callers asleep at line 383
Sleepers == {c \in WaitCallers : rl_pc[c] = "sleeping"}

\* when the sleep of a caller is over
WakeTime(c) == rl_now[c] + rl_sleep[c]

InitRateLimiterShared ==
    /\ AgentBuilt
    /\ FnIdle
    /\ rl_max \in LimiterSizes
    /\ rl_requests = <<>>
    /\ rl_clock = 0
    /\ rl_pc = [c \in WaitCallers |-> "idle"]
    /\ rl_now = [c \in WaitCallers |-> 0]
    /\ rl_sleep = [c \in WaitCallers |-> 0]
    /\ rl_log = <<>>

\* time goes by, up to the moment the next sleeper is due
SharedTick ==
    /\ \E d \in TickSteps :
        /\ rl_clock + d <= MaxClock
        /\ \A c \in Sleepers : rl_clock + d <= WakeTime(c)
        /\ rl_clock' = rl_clock + d
    /\ UNCHANGED <<agent_vars, returned_lists, fn_vars, rl_max, rl_requests,
                   rl_pc, rl_now, rl_sleep, rl_log>>

\* lines 377-383 for one caller, and line 385 when it does not sleep
SharedWaitEnter(c) ==
    /\ rl_pc[c] = "idle"
    /\ Len(rl_log) + Cardinality(Sleepers) < MaxWaits
    /\ LET now == rl_clock
           kept == Prune(rl_requests, now)
       IN  IF limit_reached(kept, rl_max) /\ sleep_time(kept, now) > 0
           THEN /\ rl_requests' = kept
                /\ rl_now' = [rl_now EXCEPT ![c] = now]
                /\ rl_sleep' = [rl_sleep EXCEPT ![c] = sleep_time(kept, now)]
                /\ rl_pc' = [rl_pc EXCEPT ![c] = "sleeping"]
                /\ UNCHANGED rl_log
           ELSE /\ rl_requests' = Append(kept, now)
                /\ rl_log' = Append(rl_log, [entered |-> now, slept |-> 0,
                                             returned |-> now])
                /\ UNCHANGED <<rl_pc, rl_now, rl_sleep>>
    /\ UNCHANGED <<agent_vars, returned_lists, fn_vars, rl_max, rl_clock>>

\* the sleep of the caller that is due first is over: line 385 appends its
\* own now to the list as the other callers have left it
SharedWaitResume(c) ==
    /\ rl_pc[c] = "sleeping"
    /\ \A d \in Sleepers : WakeTime(c) <= WakeTime(d)
    /\ rl_clock' = IF WakeTime(c) > rl_clock THEN WakeTime(c) ELSE rl_clock
    /\ rl_requests' = Append(rl_requests, rl_now[c])
    /\ rl_log' = Append(rl_log,
           [entered |-> rl_now[c], slept |-> rl_sleep[c],
            returned |-> IF WakeTime(c) > rl_clock THEN WakeTime(c)
                         ELSE rl_clock])
    /\ rl_pc' = [rl_pc EXCEPT ![c] = "idle"]
    /\ rl_now' = [rl_now EXCEPT ![c] = 0]
    /\ rl_sleep' = [rl_sleep EXCEPT ![c] = 0]
    /\ UNCHANGED <<agent_vars, returned_lists, fn_vars, rl_max>>

NextRateLimiterShared ==
    \/ SharedTick
    \/ \E c \in WaitCallers : SharedWaitEnter(c)
    \/ \E c \in WaitCallers : SharedWaitResume(c)

SpecRateLimiterShared ==
    InitRateLimiterShared /\ [][NextRateLimiterShared]_vars

----------------------------------------------------------------------------
(* LocalLLM._generate_response on the body of one completion response *)

\* a top-level string field of the JSON body: absent, or present with a text
NoField == [present |-> FALSE, text |-> <<>>]
Field(t) == [present |-> TRUE, text |-> t]

\* the 'choices' field: absent, an empty list, a list whose first entry has
\* no 'text', or a list whose first entry has one
ChoicesShapes ==
    {[shape |-> sh, text |-> <<>>] : sh \in {"absent", "empty", "no_text"}}
    \cup {[shape |-> "text", text |-> <<Num(4, 5)>>]}

\* bodies of a status-200 answer; each field has a text of its own
ResponseBodies ==
    [choices : ChoicesShapes,
     response : {NoField, Field(<<Word, Word>>)},
     generated_text : {NoField, Field(<<Word>>)},
     text : {NoField, Field(<<Word, Word, Word>>)}]

\* lines 178-190 on one body, as the answer kinds of try_endpoints:
\* 'choices' in result decides on the key alone, result['choices'][0]
\* raises IndexError on an empty list, and .get('text', '') gives '' when
\* the first entry has no text
answer_of(result) ==
    IF result.choices.shape # "absent"
    THEN IF result.choices.shape = "empty"
         THEN [kind |-> "choices_empty", text |-> <<>>]
         ELSE [kind |-> "choices", text |-> result.choices.text]
    ELSE IF result.response.present
         THEN [kind |-> "response", text |-> result.response.text]
         ELSE IF result.generated_text.present
              THEN [kind |-> "generated_text",
                    text |-> result.generated_text.text]
              ELSE IF result.text.present
                   THEN [kind |-> "text", text |-> result.text.text]
                   ELSE [kind |-> "unknown", text |-> <<>>]

\* the first endpoint answers 200 with the body, the others refuse the
\* connection
AnswersWith(result) ==
    [i \in 1..Len(Endpoints) |->
        IF i = 1 THEN answer_of(result)
        ELSE [kind |-> "request_exception", text |-> <<>>]]

InitProbe ==
    /\ AgentInit
    /\ ~AnyEngine
    /\ settings = DefaultSettings
    /\ fn_sources = <<>>
    /\ fn_max = 0
    /\ fn_args \in {[query |-> "", result |-> b] : b \in ResponseBodies}
    /\ fn_out = <<>>
    /\ fn_done = FALSE
    /\ RlIdle

ApplyProbe ==
    /\ ~fn_done
    /\ fn_out' = _generate_response(AnswersWith(fn_args.result))
    /\ fn_done' = TRUE
    /\ UNCHANGED <<agent_vars, returned_lists, fn_sources, fn_max, fn_args,
                   rl_vars>>

NextProbe == ApplyProbe

SpecProbe == InitProbe /\ [][NextProbe]_vars

----------------------------------------------------------------------------
(* The module-level handles: get_research_agent, get_local_llm and the web
   interface's initialize_agent, called from request threads. Objects are
   numbered from 1 in the order they are built; 0 is None. *)

Threads == {"t1", "t2"}

\* a request handler goes through initialize_agent; main.py calls
\* get_research_agent itself
EntryPoints == {"initialize_agent", "get_research_agent"}

\* a thread before its call: where it stands, what the accessor returned
\* to it and the agent it ends up using
ThreadStart(entry) == [pc |-> "start", entry |-> entry, ret |-> 0, got |-> 0]

\* the three globals, all None, and nothing built
NoHandles ==
    [_research_agent |-> 0, research_agent |-> 0, _local_llm_instance |-> 0,
     agents_built |-> 0, llms_built |-> 0]

InitSingleton ==
    /\ AgentBuilt
    /\ fn_sources = <<>>
    /\ fn_max = 0
    /\ fn_args \in [Threads -> {ThreadStart(e) : e \in EntryPoints}]
    /\ fn_out = NoHandles
    /\ fn_done = FALSE
    /\ RlIdle

SingletonFrame ==
    UNCHANGED <<agent_vars, returned_lists, fn_sources, fn_max, fn_done,
                rl_vars>>

\* sam_web_interface.py lines 527 and 17: the handler and initialize_agent
\* test the module's research_agent; main.py goes to the accessor at once
CheckWebHandle(t) ==
    /\ fn_args[t].pc = "start"
    /\ fn_args' = [fn_args EXCEPT ![t].pc =
           IF fn_args[t].entry = "get_research_agent" THEN "agent_check"
           ELSE IF fn_out.research_agent = 0 THEN "agent_check"
           ELSE "use"]
    /\ UNCHANGED fn_out
    /\ SingletonFrame

\* agent.py line 243; a None handle leads into LocalResearchAgent(),
\* whose _initialize_tools calls get_local_llm first
CheckAgentHandle(t) ==
    /\ fn_args[t].pc = "agent_check"
    /\ fn_args' = [fn_args EXCEPT ![t].pc =
           IF fn_out._research_agent = 0 THEN "llm_check" ELSE "agent_return"]
    /\ UNCHANGED fn_out
    /\ SingletonFrame

\* local_llm.py line 218
CheckLlmHandle(t) ==
    /\ fn_args[t].pc = "llm_check"
    /\ fn_args' = [fn_args EXCEPT ![t].pc =
           IF fn_out._local_llm_instance = 0 THEN "llm_build"
           ELSE "agent_build"]
    /\ UNCHANGED fn_out
    /\ SingletonFrame

\* local_llm.py line 219: LocalLLM() has run its health probe, and the
\* object is stored in the global
BuildLlm(t) ==
    /\ fn_args[t].pc = "llm_build"
    /\ fn_out' = [fn_out EXCEPT !.llms_built = @ + 1,
                                !._local_llm_instance = fn_out.llms_built + 1]
    /\ fn_args' = [fn_args EXCEPT ![t].pc = "agent_build"]
    /\ SingletonFrame

\* agent.py line 244: the constructor is through, and the object is
\* stored in the global
BuildAgent(t) ==
    /\ fn_args[t].pc = "agent_build"
    /\ fn_out' = [fn_out EXCEPT !.agents_built = @ + 1,
                                !._research_agent = fn_out.agents_built + 1]
    /\ fn_args' = [fn_args EXCEPT ![t].pc = "agent_return"]
    /\ SingletonFrame

\* agent.py line 245 returns the global as it is now; main.py keeps the
\* value as its agent
ReturnAgent(t) ==
    /\ fn_args[t].pc = "agent_return"
    /\ fn_args' = [fn_args EXCEPT
           ![t].ret = fn_out._research_agent,
           ![t].got = IF fn_args[t].entry = "get_research_agent"
                      THEN fn_out._research_agent ELSE 0,
           ![t].pc = IF fn_args[t].entry = "get_research_agent"
                     THEN "done" ELSE "web_assign"]
    /\ UNCHANGED fn_out
    /\ SingletonFrame

\* sam_web_interface.py line 19
AssignWebHandle(t) ==
    /\ fn_args[t].pc = "web_assign"
    /\ fn_out' = [fn_out EXCEPT !.research_agent = fn_args[t].ret]
    /\ fn_args' = [fn_args EXCEPT ![t].pc = "use"]
    /\ SingletonFrame

\* sam_web_interface.py lines 535 and 565: the handler calls the agent the
\* module's research_agent names now
UseWebHandle(t) ==
    /\ fn_args[t].pc = "use"
    /\ fn_args' = [fn_args EXCEPT ![t].got = fn_out.research_agent,
                                  ![t].pc = "done"]
    /\ UNCHANGED fn_out
    /\ SingletonFrame

NextSingleton ==
    \/ \E t \in Threads : CheckWebHandle(t)
    \/ \E t \in Threads : CheckAgentHandle(t)
    \/ \E t \in Threads : CheckLlmHandle(t)
    \/ \E t \in Threads : BuildLlm(t)
    \/ \E t \in Threads : BuildAgent(t)
    \/ \E t \in Threads : ReturnAgent(t)
    \/ \E t \in Threads : AssignWebHandle(t)
    \/ \E t \in Threads : UseWebHandle(t)

SpecSingleton == InitSingleton /\ [][NextSingleton]_vars

----------------------------------------------------------------------------
(* LocalSearchTool._search_wikipedia and _search_arxiv on the answers of
   the packages *)

\* the longest list of titles wikipedia.search gives
MaxTitles == 4

\* the titles, by their place in the list
PageNames == <<"w1", "w2", "w3", "w4", "w5">>

\* what wikipedia.page(title) does: it returns the page, it raises
\* DisambiguationError (whose first option is a page of its own), or it
\* raises something else
PageKinds == {"page", "disambiguation", "page_error"}

\* the page the first option of an ambiguous title names
FirstOption == "w_option"

TitleLists ==
    UNION {[1..n -> PageKinds] : n \in 0..MaxTitles}

\* lines 287-299: the titles whose page call returns, in order; whatever
\* the call raises, DisambiguationError included, is caught at line 298
\* and the title is passed over
pages_resolved(kinds) ==
    LET Resolved(i) == kinds[i] = "page"
        RECURSIVE From(_)
        From(i) ==
            IF i > Len(kinds) THEN <<>>
            ELSE IF Resolved(i) THEN <<PageNames[i]>> \o From(i + 1)
                 ELSE From(i + 1)
    IN  From(1)

InitProviders ==
    /\ AgentBuilt
    /\ fn_sources = <<>>
    /\ fn_max = 0
    /\ fn_args \in {[query |-> "renewable energy", kinds |-> k, papers |-> a] :
                        k \in TitleLists, a \in ArxivAnswers}
    /\ fn_out = [wikipedia |-> <<>>, arxiv |-> <<>>]
    /\ fn_done = FALSE
    /\ RlIdle

ApplyProviders ==
    /\ ~fn_done
    /\ fn_out' = [wikipedia |-> _search_wikipedia(pages_resolved(fn_args.kinds)),
                  arxiv |-> _search_arxiv(fn_args.papers)]
    /\ fn_done' = TRUE
    /\ UNCHANGED <<agent_vars, returned_lists, fn_sources, fn_max, fn_args,
                   rl_vars>>

NextProviders == ApplyProviders

SpecProviders == InitProviders /\ [][NextProviders]_vars

----------------------------------------------------------------------------
(* LocalSearchTool.extract_content on its own, in its steps *)

\* a demo url and a url of the web
ExtractUrls == {DemoIntroUrl, "https://example.org/solar"}

\* self.session as a call finds it: __init__ leaves the attribute unset;
\* a caller of the tool can have assigned None or a session of its own
SessionStates == {"unset", "none", "open"}

\* what session.get does with the request of line 346
Responses == {"get_raises", "status_404", "status_200"}

\* line 337
is_demo_url(url) == url \in {DemoIntroUrl, DemoAcademicUrl}

\* the call in flight, or the last one: where it stands, what it did to the
\* limiter and the network, and what it returned
Extracting(at, events, calls, log_at_call) ==
    [at |-> at, events |-> events, value |-> "", calls |-> calls,
     log_at_call |-> log_at_call]

InitExtract ==
    /\ AgentBuilt
    /\ fn_sources = <<>>
    /\ fn_max = 0
    /\ fn_args \in {[url |-> DemoIntroUrl, response |-> "get_raises",
                     session |-> ses] : ses \in SessionStates}
    /\ fn_out = Extracting("idle", <<>>, 0, 0)
    /\ fn_done = FALSE
    /\ rl_max \in LimiterSizes
    /\ rl_requests = <<>>
    /\ rl_clock = 0
    /\ rl_pc = "idle"
    /\ rl_now = 0
    /\ rl_sleep = 0
    /\ rl_log = <<>>

\* a build that issues the request without the wait of line 344
extract_call_unthrottled ==
    /\ fn_out.at = "idle"
    /\ rl_pc = "idle"
    /\ fn_out.calls < MaxWaits
    /\ \E url \in ExtractUrls, response \in Responses :
        /\ fn_args' = [fn_args EXCEPT !.url = url, !.response = response]
        /\ IF is_demo_url(url) \/ fn_args.session # "open"
           THEN /\ fn_out' = Extracting("idle", <<>>, fn_out.calls + 1,
                                        Len(rl_log))
                /\ fn_done' = TRUE
           ELSE /\ fn_out' = Extracting("request", <<>>, fn_out.calls + 1,
                                        Len(rl_log))
                /\ fn_done' = FALSE
    /\ UNCHANGED <<agent_vars, returned_lists, fn_sources, fn_max, rl_vars>>

\* lines 337-344, with lines 377-383 of wait and line 385 when it does not
\* sleep. The demo url returns at line 338. Reading an unset self.session
\* raises AttributeError at line 341 and a None session leads to the name
\* aiohttp, which the module never imports, at line 342: both are caught at
\* line 358 and line 361 returns "".
ExtractCall ==
    /\ fn_out.at = "idle"
    /\ rl_pc = "idle"
    /\ fn_out.calls < MaxWaits
    /\ \E url \in ExtractUrls, response \in Responses :
        /\ fn_args' = [fn_args EXCEPT !.url = url, !.response = response]
        /\ IF is_demo_url(url) \/ fn_args.session # "open"
           THEN /\ fn_out' = Extracting("idle", <<>>, fn_out.calls + 1,
                                        Len(rl_log))
                /\ fn_done' = TRUE
                /\ UNCHANGED rl_vars
           ELSE LET now == rl_clock
                    kept == Prune(rl_requests, now)
                IN  /\ fn_done' = FALSE
                    /\ IF limit_reached(kept, rl_max)
                          /\ sleep_time(kept, now) > 0
                       THEN /\ rl_requests' = kept
                            /\ rl_now' = now
                            /\ rl_sleep' = sleep_time(kept, now)
                            /\ rl_pc' = "sleeping"
                            /\ fn_out' = Extracting("waiting", <<>>,
                                             fn_out.calls + 1, Len(rl_log))
                            /\ UNCHANGED rl_log
                       ELSE /\ rl_requests' = Append(kept, now)
                            /\ rl_log' = Append(rl_log,
                                   [entered |-> now, slept |-> 0,
                                    returned |-> now])
                            /\ fn_out' = Extracting("request",
                                             <<"wait_returned">>,
                                             fn_out.calls + 1, Len(rl_log))
                            /\ UNCHANGED <<rl_pc, rl_now, rl_sleep>>
                    /\ UNCHANGED <<rl_max, rl_clock>>
    /\ UNCHANGED <<agent_vars, returned_lists, fn_sources, fn_max>>

\* the sleep of line 383 is over: line 385, and wait returns to line 344
ExtractWaitResume ==
    /\ fn_out.at = "waiting"
    /\ rl_pc = "sleeping"
    /\ rl_clock' = rl_now + rl_sleep
    /\ rl_requests' = Append(rl_requests, rl_now)
    /\ rl_log' = Append(rl_log, [entered |-> rl_now, slept |-> rl_sleep,
                                 returned |-> rl_now + rl_sleep])
    /\ rl_pc' = "idle"
    /\ rl_now' = 0
    /\ rl_sleep' = 0
    /\ fn_out' = [fn_out EXCEPT !.at = "request",
                                !.events = <<"wait_returned">>]
    /\ UNCHANGED <<agent_vars, returned_lists, fn_sources, fn_max, fn_args,
                   fn_done, rl_max>>

\* lines 346-361: the request goes out. A get that raises is caught at line
\* 358, a status other than 200 falls through, and with status 200 line 349
\* reaches the name BeautifulSoup, which the module never imports, and is
\* caught at line 358 as well: line 361 returns "" each time.
ExtractRequest ==
    /\ fn_out.at = "request"
    /\ fn_out' = [fn_out EXCEPT !.at = "idle",
                                !.events = Append(@, "request"),
                                !.value = ""]
    /\ fn_done' = TRUE
    /\ UNCHANGED <<agent_vars, returned_lists, fn_sources, fn_max, fn_args,
                   rl_vars>>

NextExtract ==
    \/ Tick
    \/ ExtractCall
    \/ ExtractWaitResume
    \/ ExtractRequest

SpecExtract == InitExtract /\ [][NextExtract]_vars

----------------------------------------------------------------------------
(* LocalLLM.evaluate_source_relevance on its own *)

\* queries and contents, as their words
EvalQueries == {<<>>, <<"Solar", "Energy">>}
EvalContents == {<<>>, <<"solar", "power">>, <<"energy", "from", "solar">>}

\* what the backend writes: "0.8", "about 7 of 10", "highly relevant", ""
ModelTexts ==
    {<<Num(4, 5)>>, <<Word, Num(7, 1), Word, Num(10, 1)>>, <<Word, Word>>,
     <<>>}

\* what one endpoint does with the post
EndpointAnswers ==
    {[kind |-> k, text |-> <<>>] :
        k \in {"request_exception", "status", "unknown", "choices_empty",
               "choices_object"}}
    \cup {[kind |-> "choices", text |-> t] : t \in ModelTexts}
    \cup {[kind |-> "response", text |-> <<Word, Word>>]}

\* with the backend down no endpoint is asked
NoAnswers == [i \in 1..Len(Endpoints) |->
                [kind |-> "request_exception", text |-> <<>>]]

InitEvaluate ==
    /\ AgentInit
    /\ ~AnyEngine
    /\ settings = DefaultSettings
    /\ fn_sources = <<>>
    /\ fn_max = 0
    /\ fn_args \in
        {[query |-> q, source_content |-> c, answers |-> a] :
            q \in EvalQueries, c \in EvalContents,
            a \in IF model_loaded
                  THEN [1..Len(Endpoints) -> EndpointAnswers]
                  ELSE {NoAnswers}}
    /\ fn_out = <<0, 1>>
    /\ fn_done = FALSE
    /\ RlIdle

ApplyEvaluate ==
    /\ ~fn_done
    /\ fn_out' = evaluate_source_relevance(fn_args.query,
                    fn_args.source_content, fn_args.answers)
    /\ fn_done' = TRUE
    /\ UNCHANGED <<agent_vars, returned_lists, fn_sources, fn_max, fn_args,
                   rl_vars>>

NextEvaluate == ApplyEvaluate

SpecEvaluate == InitEvaluate /\ [][NextEvaluate]_vars

----------------------------------------------------------------------------
(* Properties *)

IsPrefix(s, t) == Len(s) <= Len(t) /\ SubSeq(t, 1, Len(s)) = s

DistinctUrls(srcs) ==
    \A i, j \in 1..Len(srcs) : i # j => srcs[i].url # srcs[j].url

Returned == pc = "idle" /\ outcome = "returned"

TerminalFields(r) ==
    /\ r.sources = <<>>
    /\ r.citations = <<>>
    /\ r.confidence_score[1] = 0

\* C1: research never raises to its caller; a fault that leaves any of the
\* six stages ends the call with a returned result whose report describes
\* the error, whose sources and citations are empty and whose confidence
\* is 0.0
C1_FaultGivesTerminalResult ==
    /\ outcome # "raised"
    /\ (pc = "idle" /\ fault_at # "none") =>
          /\ outcome = "returned"
          /\ last_result.report = [kind |-> "research_failed",
                                   error |-> fault_at]
          /\ last_result.query = query
          /\ TerminalFields(last_result)

C1_Witness ==
    /\ Returned
    /\ fault_at = "citations"
    /\ stages = <<"search", "enhance", "filter", "report", "citations">>
    /\ last_result.report.kind = "research_failed"

\* C2: every research call that returns has appended the result it returns
\* to the history: the history is one longer than when the call started and
\* ends with that result
C2_EveryReturnAppends ==
    Returned => research_history = Append(history_at_call, last_result)

\* the search of the call in flight, or of the last call, returned found
SearchReturned == "search" \in Range(stages) /\ fault_at # "search"

\* C3: when search returns an empty list the call is over: it returned the
\* no-sources result (marker report, no sources, no citations, confidence
\* 0.0) and no stage after the search ran
C3_EmptySearchShortCircuits ==
    (SearchReturned /\ found = <<>>) =>
        /\ Returned
        /\ stages = <<"search">>
        /\ last_result.report = NoSourcesReport
        /\ last_result.query = query
        /\ TerminalFields(last_result)

C3_Witness ==
    /\ SearchReturned
    /\ found = <<>>
    /\ AnyEngine
    /\ Returned

\* citation i was produced from source i
CitationsAligned(r) ==
    /\ Len(r.citations) = Len(r.sources)
    /\ \A i \in 1..Len(r.sources) :
          /\ r.citations[i].title = r.sources[i].title
          /\ r.citations[i].kind # "citation_error" =>
                r.citations[i].url = r.sources[i].url

\* C4: in every result research returns and every result in the history
\* there are as many citations as sources and citation i is the one made
\* from source i, however the backend and the per-source faults fell
C4_CitationsAligned ==
    /\ Returned => CitationsAligned(last_result)
    /\ \A k \in 1..Len(research_history) :
          CitationsAligned(research_history[k])

C4_Witness ==
    /\ Returned
    /\ Len(last_result.sources) = 2
    /\ last_result.citations[1].kind = "citation_error"
    /\ last_result.citations[2].kind = "backend_error"
    /\ research_history = <<last_result>>

NonIncreasing(srcs) ==
    \A i \in 1..(Len(srcs) - 1) :
        srcs[i].relevance_score >= srcs[i + 1].relevance_score

Occurrences(s, e) == Cardinality({i \in 1..Len(s) : s[i] = e})

SubMultiset(s, t) == \A e \in Range(s) : Occurrences(s, e) <= Occurrences(t, e)

\* C5 as stated: for every list and every max_sources the result is
\* non-increasing in score, a sub-multiset of the input and exactly
\* min(len(sources), max_sources) long
C5_LengthIsMinForEveryMax ==
    fn_done =>
        /\ NonIncreasing(fn_out)
        /\ SubMultiset(fn_out, fn_sources)
        /\ Len(fn_out) = Min(Len(fn_sources), fn_max)

\* C5, amended: for every list and every max_sources the result is
\* non-increasing in score and a sub-multiset of the input; it is
\* min(len(sources), max_sources) long when max_sources >= 0 and
\* max(len(sources) + max_sources, 0) long when max_sources < 0
C5_SortedAndTruncated ==
    fn_done =>
        /\ NonIncreasing(fn_out)
        /\ SubMultiset(fn_out, fn_sources)
        /\ fn_max >= 0 => Len(fn_out) = Min(Len(fn_sources), fn_max)
        /\ fn_max < 0 => Len(fn_out) = Max(Len(fn_sources) + fn_max, 0)

C5_Witness ==
    /\ fn_done
    /\ Len(fn_sources) = 3
    /\ fn_max = 2
    /\ fn_sources[1].relevance_score < fn_sources[3].relevance_score
    /\ Len(fn_out) = 2

\* C6: the confidence of the empty list is 0.0, and the confidence of a
\* list whose scores lie in [0,1] lies in [0,1]
C6_ConfidenceInUnitInterval ==
    fn_done =>
        /\ fn_out[2] > 0
        /\ fn_out[1] >= 0
        /\ fn_out[1] <= fn_out[2]
        /\ fn_sources = <<>> => fn_out[1] = 0

C6_Witness ==
    /\ fn_done
    /\ Len(fn_sources) = 6
    /\ \A i \in 1..6 : fn_sources[i].relevance_score = 10
    /\ fn_out[1] * 2 > fn_out[2]

\* the claim's formula times 150 * count, in integers; scores are tenths
ScaledConfidence(srcs) ==
    LET count == Len(srcs)
        distinct_types == Cardinality({srcs[i].source_type : i \in 1..count})
        academic == Cardinality({i \in 1..count :
                                    srcs[i].source_type = "academic"})
    IN  Min(150 * count,
            6 * SumRelevance(srcs)
            + 10 * count * Min(distinct_types, 3)
            + 6 * count * Min(count, 5)
            + Min(30 * academic, 6 * count))

\* C7: for a non-empty list the confidence is min(1, 0.4 * avg_relevance
\* + 0.2 * min(types / 3, 1) + 0.2 * min(count / 5, 1)
\* + 0.2 * min(academic / count, 0.2))
C7_ConfidenceFormula ==
    (fn_done /\ fn_sources # <<>>) =>
        fn_out[1] * 150 * Len(fn_sources)
            = fn_out[2] * ScaledConfidence(fn_sources)

C7_Witness ==
    /\ fn_done
    /\ Len(fn_sources) = 6
    /\ Cardinality({fn_sources[i].source_type : i \in 1..6}) = 3
    /\ Cardinality({i \in 1..6 : fn_sources[i].source_type = "academic"}) = 3

HeldBy == {c \in Callers : returned_lists[c].held}

\* C8: get_research_history returns a copy: the call returns the value of
\* the history and leaves the history alone, two calls between which no
\* research call started or appended returned equal values, and a caller
\* changing the list it holds changes neither the history nor a list
\* another caller holds
C8_HistoryCopyIsDefensive ==
    /\ [](\A c, d \in HeldBy :
            (returned_lists[c].fresh /\ returned_lists[d].fresh) =>
                returned_lists[c].returned = returned_lists[d].returned)
    /\ [][\A c \in Callers :
            /\ (~returned_lists[c].held /\ returned_lists'[c].held) =>
                  /\ ListOf(returned_lists[c])' = research_history
                  /\ research_history' = research_history
            /\ (returned_lists[c].held /\ returned_lists'[c].held
                /\ ~returned_lists[c].mutated /\ returned_lists'[c].mutated) =>
                  /\ research_history' = research_history
                  /\ \A d \in HeldBy \ {c} :
                        ListOf(returned_lists[d])' = ListOf(returned_lists[d])
         ]_vars

C8_Witness ==
    /\ Len(research_history) = 1
    /\ returned_lists["c1"].held
    /\ returned_lists["c1"].mutated
    /\ returned_lists["c1"].items = <<>>
    /\ returned_lists["c2"].held
    /\ returned_lists["c2"].fresh
    /\ returned_lists["c2"].items = research_history

RECURSIVE FirstOccurrences(_)
FirstOccurrences(s) ==
    IF s = <<>> THEN <<>>
    ELSE LET front == SubSeq(s, 1, Len(s) - 1)
             last == s[Len(s)]
         IN  IF \E j \in 1..Len(front) : front[j].url = last.url
             THEN FirstOccurrences(front)
             ELSE Append(FirstOccurrences(front), last)

\* C10: what search returns has no url twice: of the gathered sources it
\* keeps the first with each url, in gathering order (cut to max_results);
\* so the sources of every result have pairwise distinct urls
C10_SearchOutputHasUniqueUrls ==
    /\ SearchReturned =>
          /\ DistinctUrls(found)
          /\ AnyEngine => IsPrefix(found, FirstOccurrences(all_sources))
          /\ (AnyEngine /\ max_sources >= Len(all_sources)) =>
                found = FirstOccurrences(all_sources)
    /\ DistinctUrls(sources)
    /\ DistinctUrls(last_result.sources)
    /\ \A k \in 1..Len(research_history) :
          DistinctUrls(research_history[k].sources)

C10_Witness ==
    /\ SearchReturned
    /\ Len(all_sources) = 3
    /\ all_sources[1].url = all_sources[3].url
    /\ all_sources[1].url # all_sources[2].url
    /\ all_sources[1].source_type # all_sources[3].source_type
    /\ found = <<all_sources[1], all_sources[2]>>

----------------------------------------------------------------------------
(* The search adapter's fallback and its providers' faults *)

\* all_sources of the search under study
Gathered == search_gather(fn_args.arxiv.hits, fn_args.wikipedia.hits)

\* every provider is switched off by its flag or its package is missing
AllProvidersOff == ~arxiv_called /\ ~wikipedia_called

HasDemoSource(srcs) ==
    \E i \in 1..Len(srcs) : srcs[i].url \in {DemoIntroUrl, DemoAcademicUrl}

\* C11: when every provider is disabled by its flag or unavailable and
\* nothing was gathered, search returns the two placeholder sources.
C11_PlaceholdersWhenAllOff ==
    fn_done /\ AllProvidersOff /\ Gathered = <<>>
        => fn_out = _get_demo_sources(fn_args.query)

\* C12: when at least one provider is available, search never returns a
\* placeholder source, and it returns the empty list when the providers
\* gathered nothing.
C12_NoPlaceholdersWhenAvailable ==
    fn_done /\ AnyEngine
        => /\ ~HasDemoSource(fn_out)
           /\ Gathered = <<>> => fn_out = <<>>

C12_Witness ==
    /\ fn_done
    /\ arxiv_called /\ fn_args.arxiv.raised
    /\ wikipedia_called /\ fn_args.wikipedia.hits = <<>>
    /\ Gathered = <<>>
    /\ fn_out = <<>>

OfType(srcs, t) == SelectSeq(srcs, LAMBDA x : x.source_type = t)

\* C13: a provider that raised contributes no source to all_sources, and
\* search returns the unique sources of the other provider, cut to
\* max_results.
C13_RaisingProviderContributesNothing ==
    fn_done =>
        /\ fn_args.arxiv.raised =>
            /\ OfType(Gathered, "academic") = <<>>
            /\ fn_out = PySliceTo(_remove_duplicates(
                   OfType(Gathered, "encyclopedia")), fn_max)
        /\ fn_args.wikipedia.raised =>
            /\ OfType(Gathered, "encyclopedia") = <<>>
            /\ fn_out = PySliceTo(_remove_duplicates(
                   OfType(Gathered, "academic")), fn_max)

\* C19: for max_results of one or more, search returns at most
\* max_results sources, on the placeholder path too.
C19_AtMostMaxResults ==
    fn_done /\ fn_max >= 1 => Len(fn_out) <= fn_max

----------------------------------------------------------------------------
(* The agent with the backend down *)

\* the publisher the template of lines 197-202 names for a source type
PublisherOf(t) ==
    IF t = "academic" THEN "arXiv"
    ELSE IF t = "encyclopedia" THEN "Wikipedia" ELSE ""

TemplateCitationOf(s) ==
    [kind |-> "template_citation", publisher |-> PublisherOf(s.source_type),
     title |-> s.title, url |-> s.url]

FindingOf(s) ==
    [title |-> s.title, source_type |-> s.source_type,
     relevance |-> s.relevance_score, content |-> s.content]

NoCitationFault(cits) ==
    \A i \in 1..Len(cits) : cits[i].kind # "citation_error"

\* C16: with model_loaded false, a research call that no fault left and
\* that handed sources to the report and citation generators returns the
\* template report (the query in its heading, one section per source), for
\* each source its type's template citation, and the sources with the
\* scores search gave them (no evaluation is attempted).
C16_DegradedUsesTemplates ==
    /\ Returned /\ ~model_loaded /\ fault_at = "none"
    /\ last_result.sources # <<>>
    /\ NoCitationFault(last_result.citations)
    => /\ last_result.report =
            [kind |-> "template_report", query |-> query,
             findings |-> [i \in 1..Len(last_result.sources) |->
                              FindingOf(last_result.sources[i])]]
       /\ last_result.citations =
            [i \in 1..Len(last_result.sources) |->
                TemplateCitationOf(last_result.sources[i])]
       /\ \A i \in 1..Len(last_result.sources) :
            last_result.sources[i] \in Range(found)

C16_Witness ==
    /\ Returned /\ ~model_loaded /\ fault_at = "none"
    /\ Len(last_result.sources) = 2
    /\ NoCitationFault(last_result.citations)
    /\ last_result.report.kind = "template_report"
    /\ Len(last_result.report.findings) = 2
    /\ last_result.citations[1].publisher = "arXiv"
    /\ last_result.citations[2].publisher = "Wikipedia"

\* research("renewable energy", max_sources=3) returned, backend down, no
\* provider package installed, no fault
DegradedRun ==
    /\ Returned /\ ~model_loaded /\ ~AnyEngine
    /\ query = "renewable energy" /\ max_sources = 3
    /\ fault_at = "none"
    /\ NoCitationFault(last_result.citations)

DemoWeb ==
    Source(<<"Introduction to", "renewable energy">>, DemoIntroUrl, "demo", 7,
           "web")

DemoAcademic ==
    Source(<<"Academic Research on", "renewable energy">>, DemoAcademicUrl,
           "demo", 8, "academic")

\* what the degraded run returns apart from the order of its citations
DegradedRunResult ==
    /\ found = <<DemoWeb, DemoAcademic>>
    /\ Range(last_result.sources) = {DemoWeb, DemoAcademic}
    /\ Len(last_result.sources) = 2
    /\ last_result.report.kind = "template_report"
    /\ last_result.report.query = "renewable energy"
    /\ Len(last_result.report.findings) = 2
    /\ Len(last_result.citations) = 2
    /\ last_result.confidence_score = <<83, 150>>

\* C17 as stated: in the degraded run, citations[0] follows the
\* non-academic template and citations[1] the academic one.
C17_DegradedRunWebFirst ==
    DegradedRun =>
        /\ DegradedRunResult
        /\ last_result.citations[1] = TemplateCitationOf(DemoWeb)
        /\ last_result.citations[2] = TemplateCitationOf(DemoAcademic)

\* C17, amended: the degraded run returns the two placeholder sources
\* ranked by relevance (academic 0.8, then web 0.7), the template report
\* with two findings, the academic template citation first and the
\* non-academic one second, and confidence 83/150; every such run returns
\* this same result, and the history holds it.
C17_DegradedRunAcademicFirst ==
    DegradedRun =>
        /\ DegradedRunResult
        /\ last_result.sources = <<DemoAcademic, DemoWeb>>
        /\ last_result.report.findings =
               <<FindingOf(DemoAcademic), FindingOf(DemoWeb)>>
        /\ last_result.citations =
               <<TemplateCitationOf(DemoAcademic), TemplateCitationOf(DemoWeb)>>
        /\ research_history[Len(research_history)] = last_result

C17_Witness ==
    /\ DegradedRun
    /\ Len(last_result.citations) = 2
    /\ last_result.citations[1].publisher = "arXiv"

\* C18: the limit research passes to search and uses for the truncation
\* is at least 1, whatever max_sources the caller gave.
C18_LimitAtLeastOne ==
    pc \in {"search", "enhance", "filter"} => max_sources >= 1

----------------------------------------------------------------------------
(* The rate limiter *)

\* the wait calls that returned in the Window seconds ending with the
\* return of call i
ReturnedWithin(i) ==
    {j \in 1..Len(rl_log) :
        /\ rl_log[j].returned <= rl_log[i].returned
        /\ rl_log[i].returned - rl_log[j].returned < Window}

\* C14: in no window of 60 seconds do more than max_requests_per_minute
\* wait calls return.
C14_WindowNeverExceeded ==
    \A i \in 1..Len(rl_log) : Cardinality(ReturnedWithin(i)) <= rl_max

\* the first k calls on the limiter were issued back-to-back: each was
\* entered at the instant the one before returned
BackToBack(k) ==
    /\ k <= Len(rl_log)
    /\ \A i \in 2..k : rl_log[i].entered = rl_log[i - 1].returned

\* C15: of the calls issued back-to-back on a fresh limiter of size N, the
\* first N return without sleeping, and call N+1 sleeps for
\* 60 - (now - oldest remaining timestamp), its timestamp being appended
\* only after the sleep.
C15_FirstNPassThenSleep ==
    /\ \A k \in 1..Len(rl_log) :
        k <= rl_max /\ BackToBack(k) =>
            rl_log[k].slept = 0 /\ rl_log[k].returned = rl_log[k].entered
    /\ BackToBack(rl_max + 1) =>
        rl_log[rl_max + 1].slept =
            Window - (rl_log[rl_max + 1].entered - rl_log[1].entered)
    /\ ( /\ rl_pc = "sleeping"
         /\ Len(rl_log) = rl_max
         /\ BackToBack(rl_max)
         /\ rl_now = rl_log[rl_max].returned )
       => /\ rl_sleep = Window - (rl_now - rl_requests[1])
          /\ Len(rl_requests) = rl_max
    /\ ( /\ rl_pc = "idle"
         /\ Len(rl_log) = rl_max + 1
         /\ BackToBack(rl_max + 1) )
       => /\ Len(rl_requests) = rl_max + 1
          /\ rl_requests[rl_max + 1] = rl_log[rl_max + 1].entered

C15_Witness ==
    /\ rl_max = 2
    /\ Len(rl_log) = 3
    /\ BackToBack(3)
    /\ rl_log[1].slept = 0
    /\ rl_log[2].slept = 0
    /\ rl_log[3].slept = 60
    /\ rl_log[3].returned = rl_log[1].entered + 60

----------------------------------------------------------------------------
(* The relevance evaluator *)

\* the endpoint whose answer ended the loop of lines 168-193, or 0
RECURSIVE DecisiveFrom(_, _)
DecisiveFrom(answers, i) ==
    IF i > Len(answers) THEN 0
    ELSE IF answers[i].kind \in PassedOver THEN DecisiveFrom(answers, i + 1)
         ELSE i

\* the backend answered with a text in a recognised field
BackendAnswered ==
    /\ model_loaded
    /\ DecisiveFrom(fn_args.answers, 1) # 0
    /\ fn_args.answers[DecisiveFrom(fn_args.answers, 1)].kind
           \in RecognisedFields

BackendText == fn_args.answers[DecisiveFrom(fn_args.answers, 1)].text

NumbersIn(text) == {i \in 1..Len(text) : text[i].number}

FirstNumberIn(text) ==
    text[CHOOSE i \in NumbersIn(text) : \A j \in NumbersIn(text) : i <= j].value

InUnitInterval(r) == RLeq(<<0, 1>>, r) /\ RLeq(r, <<1, 1>>)

FallbackScore == keyword_overlap(fn_args.query, fn_args.source_content)

\* C20: evaluate_source_relevance returns a value in [0,1]; it returns
\* the keyword-overlap score when the backend is down, on every backend
\* fault and on every answer without a number; a number parsed from the
\* backend's answer is returned clamped to [0,1].
C20_FallbackOnEveryFault ==
    fn_done =>
        /\ InUnitInterval(fn_out)
        /\ IF BackendAnswered /\ NumbersIn(BackendText) # {}
           THEN fn_out = RMax(<<0, 1>>, RMin(<<1, 1>>,
                                            FirstNumberIn(BackendText)))
           ELSE fn_out = FallbackScore

----------------------------------------------------------------------------
(* The backend marked available and erroring *)

\* C22: with the backend marked available, the report of a call that
\* handed sources to _generate_report is the backend's report or, when
\* the completion request failed, the template report; it is never a
\* backend error message.
C22_ReportFallsBackOnError ==
    /\ Returned /\ model_loaded /\ fault_at = "none"
    /\ last_result.sources # <<>>
    => last_result.report.kind \in {"llm_report", "template_report"}

\* C23: with the backend marked available, every citation is the
\* backend's citation or, when the completion request failed, the
\* template of its source's type; none is a backend error message.
C23_CitationsFallBackOnError ==
    Returned /\ model_loaded /\ fault_at = "none"
    => \A i \in 1..Len(last_result.citations) :
           last_result.citations[i].kind # "backend_error"

----------------------------------------------------------------------------
(* The timestamp wait records *)

\* C24: the timestamp a wait call appended is the time at which the call
\* returned.
C24_RecordedAtReturn ==
    rl_pc = "idle" /\ rl_log # <<>>
    => rl_requests[Len(rl_requests)] = rl_log[Len(rl_log)].returned

----------------------------------------------------------------------------
(* The providers' budgets *)

\* the providers search calls: enabled by their flag and available
EnabledProviders ==
    (IF arxiv_called THEN 1 ELSE 0) + (IF wikipedia_called THEN 1 ELSE 0)

\* C26: with k providers enabled and available, search asks each of them
\* for floor(max_results / k) results.
C26_BudgetSplitEvenly ==
    fn_done /\ EnabledProviders >= 1
    => /\ arxiv_called =>
            fn_args.arxiv.asked = FloorDiv(fn_max, EnabledProviders)
       /\ wikipedia_called =>
            fn_args.wikipedia.asked = FloorDiv(fn_max, EnabledProviders)

----------------------------------------------------------------------------
(* Ties in the ranking *)

\* where search returned the source with this url
PositionIn(srcs, url) == CHOOSE i \in 1..Len(srcs) : srcs[i].url = url

\* C27: two ranked sources with equal relevance_score stand in the order
\* in which search returned them, and so do their citations.
C27_TiesKeepProviderOrder ==
    Returned /\ fault_at = "none"
    => \A i, j \in 1..Len(last_result.sources) :
        ( /\ i < j
          /\ last_result.sources[i].relevance_score
                = last_result.sources[j].relevance_score )
        => /\ PositionIn(found, last_result.sources[i].url)
                < PositionIn(found, last_result.sources[j].url)
           /\ last_result.citations[i].title = last_result.sources[i].title
           /\ last_result.citations[j].title = last_result.sources[j].title

C27_Witness ==
    /\ Returned /\ fault_at = "none"
    /\ Len(last_result.sources) = 2
    /\ last_result.sources[1].relevance_score
          = last_result.sources[2].relevance_score
    /\ last_result.sources[1].source_type = "academic"
    /\ last_result.sources[2].source_type = "encyclopedia"
    /\ last_result.citations[2].title = last_result.sources[2].title

----------------------------------------------------------------------------
(* Soft faults, and the order of the stages *)

\* the call went down the success path: its result is neither the
\* no-sources result nor the failure result, and the history took it
NonTerminal ==
    /\ last_result.report.kind \notin {"research_failed", "no_sources_found"}
    /\ research_history = Append(history_at_call, last_result)

\* C28: a source whose content fetch gave nothing keeps its content, a
\* source whose re-scoring raised keeps its score; either way it stays in
\* the list at its place, the sources after it are processed too, and a
\* call with such faults and no other returns a non-terminal result.
C28_SoftFaultsAbsorbed ==
    /\ \A i \in 1..Len(enhance_log) :
        /\ enhance_log[i].extract_failed =>
              enhance_log[i].after.content = enhance_log[i].before.content
        /\ enhance_log[i].eval_raised =>
              enhance_log[i].after.relevance_score
                  = enhance_log[i].before.relevance_score
        /\ enhance_log[i].after.url = found[i].url
    /\ pc = "enhance" =>
        /\ Len(sources) = Len(found)
        /\ \A i \in 1..Len(enhance_log) : sources[i] = enhance_log[i].after
    /\ pc \in {"filter", "report", "citations", "confidence"} =>
        Len(enhance_log) = Len(found)
    /\ ( /\ Returned /\ fault_at = "none"
         /\ \E i \in 1..Len(enhance_log) :
               enhance_log[i].extract_failed \/ enhance_log[i].eval_raised )
       => NonTerminal /\ Len(enhance_log) = Len(found)

C28_Witness ==
    /\ Returned /\ fault_at = "none"
    /\ Len(enhance_log) = 2
    /\ enhance_log[1].extract_failed /\ enhance_log[1].eval_raised
    /\ ~enhance_log[2].eval_raised
    /\ enhance_log[2].after.relevance_score
          # enhance_log[2].before.relevance_score
    /\ Len(last_result.sources) = 2
    /\ NonTerminal

\* C29: a citation-error placeholder stands at the index of the source
\* whose citation faulted and names that source; every later source has
\* its citation at its own index, and the call went on to its result.
C29_CitationFaultKeepsBatch ==
    Returned /\ fault_at = "none"
    => \A k \in 1..Len(last_result.citations) :
        last_result.citations[k].kind = "citation_error"
        => /\ k <= Len(last_result.sources)
           /\ last_result.citations[k] =
                 [kind |-> "citation_error",
                  title |-> last_result.sources[k].title]
           /\ Len(last_result.citations) = Len(last_result.sources)
           /\ \A i \in (k + 1)..Len(last_result.sources) :
                 last_result.citations[i].title = last_result.sources[i].title
           /\ "citations" \in Range(stages)
           /\ NonTerminal

C29_Witness ==
    /\ Returned /\ fault_at = "none"
    /\ Len(last_result.sources) = 2
    /\ last_result.citations[1].kind = "citation_error"
    /\ last_result.citations[2].kind = "template_citation"
    /\ last_result.citations[2].url = last_result.sources[2].url

StageOrder ==
    <<"search", "enhance", "filter", "report", "citations", "confidence">>

\* the stages that are over when the call stands at a stage
StagesBefore(stage) ==
    CASE stage = "search" -> <<>>
      [] stage = "filter" -> SubSeq(StageOrder, 1, 2)
      [] stage = "report" -> SubSeq(StageOrder, 1, 3)
      [] stage = "citations" -> SubSeq(StageOrder, 1, 4)
      [] stage = "confidence" -> SubSeq(StageOrder, 1, 5)

\* C30: the stages of a call run in the order search, enhancement (one
\* source at a time, in the order search returned them), sort/truncate,
\* report, citations, confidence, and the history append comes last.
C30_StagesInSequence ==
    /\ IsPrefix(stages, StageOrder)
    /\ pc \in {"search", "filter", "report", "citations", "confidence"} =>
        stages = StagesBefore(pc)
    /\ pc = "enhance" =>
        /\ idx = Len(enhance_log) + 1
        /\ stages = IF idx = 1 THEN <<"search">> ELSE <<"search", "enhance">>
    /\ Len(enhance_log) <= Len(found)
    /\ \A i \in 1..Len(enhance_log) : enhance_log[i].before = found[i]
    /\ "filter" \in Range(stages) => Len(enhance_log) = Len(found)
    /\ pc \in {"filter", "report", "citations", "confidence"} =>
        Len(enhance_log) = Len(found)
    /\ pc # "idle" => research_history = history_at_call
    /\ research_history # history_at_call =>
        /\ stages = StageOrder
        /\ research_history = Append(history_at_call, last_result)

C30_Witness ==
    /\ Returned
    /\ stages = StageOrder
    /\ Len(enhance_log) = 2
    /\ enhance_log[1].before = found[1]
    /\ enhance_log[2].before = found[2]
    /\ research_history = Append(history_at_call, last_result)

----------------------------------------------------------------------------
(* extract_content and the limiter *)

\* C21: every extract_content call returns, and returns the empty string;
\* a call for a demo url leaves the limiter and the network alone; a call
\* that issues a request has had its wait on the limiter return first.
C21_WaitBeforeRequest ==
    /\ fn_done => fn_out.at = "idle" /\ fn_out.value = ""
    /\ fn_out.at = "idle" /\ fn_out.calls > 0 => fn_done
    /\ fn_done /\ is_demo_url(fn_args.url) =>
        /\ fn_out.events = <<>>
        /\ Len(rl_log) = fn_out.log_at_call
    /\ fn_out.at = "request" =>
        /\ fn_out.events = <<"wait_returned">>
        /\ rl_pc = "idle"
        /\ Len(rl_log) = fn_out.log_at_call + 1
    /\ \A i \in 1..Len(fn_out.events) :
        fn_out.events[i] = "request"
        => /\ i = 2
           /\ fn_out.events[1] = "wait_returned"
           /\ Len(rl_log) = fn_out.log_at_call + 1
           /\ rl_log[Len(rl_log)].returned <= rl_clock

C21_Witness ==
    /\ fn_done
    /\ ~is_demo_url(fn_args.url)
    /\ fn_args.response = "status_200"
    /\ fn_out.events = <<"wait_returned", "request">>
    /\ rl_log[Len(rl_log)].slept > 0
    /\ fn_out.value = ""

----------------------------------------------------------------------------
(* The limiter under several callers *)

\* how often the time t stands in a list of timestamps
TimesIn(requests, t) ==
    Cardinality({i \in 1..Len(requests) : requests[i] = t})

\* the times the returned calls recorded
Recorded == [i \in 1..Len(rl_log) |-> rl_log[i].entered]

\* every timestamp a returned call appended and no pruning was due to drop
\* is in the list, once per call
NoUpdateLost ==
    \A i \in 1..Len(rl_log) :
        rl_clock - rl_log[i].entered < Window
        => TimesIn(rl_requests, rl_log[i].entered)
               = TimesIn(Recorded, rl_log[i].entered)

\* C25: with callers that interleave at the await, no more than
\* max_requests_per_minute wait calls return within 60 seconds, and no
\* timestamp a call appended is lost.
C25_SharedBudgetPreserved ==
    /\ NoUpdateLost
    /\ \A i \in 1..Len(rl_log) :
        Cardinality({j \in 1..i :
            rl_log[i].returned - rl_log[j].returned < Window}) <= rl_max

----------------------------------------------------------------------------
(* The payload of a completion response *)

\* the payloads a body carries, in the order choices[0].text, response,
\* generated_text, text
PayloadsOf(result) ==
    (IF result.choices.shape = "text" THEN <<result.choices.text>> ELSE <<>>)
    \o (IF result.response.present THEN <<result.response.text>> ELSE <<>>)
    \o (IF result.generated_text.present
        THEN <<result.generated_text.text>> ELSE <<>>)
    \o (IF result.text.present THEN <<result.text.text>> ELSE <<>>)

\* C31: from a body that carries a payload under one or more of the
\* recognised fields, the returned text is the payload of the earliest of
\* choices[0].text, response, generated_text, text that is present.
C31_FirstPresentFieldWins ==
    fn_done /\ model_loaded /\ PayloadsOf(fn_args.result) # <<>>
    => fn_out = PayloadsOf(fn_args.result)[1]

----------------------------------------------------------------------------
(* The keyword-overlap score *)

\* the words of the query, case set aside
QueryWords == {Lower(fn_args.query[i]) : i \in 1..Len(fn_args.query)}

\* those of them that occur in the content, case set aside
SharedWords ==
    {w \in QueryWords :
        \E j \in 1..Len(fn_args.source_content) :
            Lower(fn_args.source_content[j]) = w}

\* the call took the keyword path: backend down, or no number in its text
TookKeywordPath ==
    \/ ~model_loaded
    \/ re_search(_generate_response(fn_args.answers)) = <<>>

\* C32: the keyword score is the share of the query's words, compared
\* without case, that occur in the content; it is 0 for a query without
\* words and lies in [0,1].
C32_KeywordOverlapScore ==
    fn_done /\ TookKeywordPath
    => /\ InUnitInterval(fn_out)
       /\ fn_out = IF QueryWords = {} THEN <<0, 1>>
                   ELSE Norm(<<Cardinality(SharedWords),
                               Cardinality(QueryWords)>>)

C32_Witness ==
    /\ fn_done /\ ~model_loaded
    /\ fn_args.query = <<"Solar", "Energy">>
    /\ fn_args.source_content = <<"solar", "power">>
    /\ fn_out = <<1, 2>>

----------------------------------------------------------------------------
(* Backend availability *)

\* C33: no step of a research call, of a status query or of a failing
\* backend request changes model_loaded: it keeps the value the health
\* probe of the constructor gave it.
C33_ModelLoadedSticky == [][model_loaded' = model_loaded]_vars

C33_Witness ==
    /\ Returned /\ fault_at = "none"
    /\ model_loaded
    /\ last_result.report.kind = "backend_error"
    /\ \E i \in 1..Len(last_result.citations) :
          last_result.citations[i].kind = "backend_error"

----------------------------------------------------------------------------
(* The process-wide agent *)

\* C34: whatever the interleaving of the threads, at most one
\* LocalResearchAgent is built, and the threads that are through all hold
\* that one agent.
C34_InitialisedOnce ==
    /\ fn_out.agents_built <= 1
    /\ \A t, u \in Threads :
        fn_args[t].pc = "done" /\ fn_args[u].pc = "done"
        => fn_args[t].got = fn_args[u].got

----------------------------------------------------------------------------
(* History reads while a research call is under way *)

\* a result with all its parts: one citation per source and the
\* confidence of its sources
FullyAssembled(r) ==
    /\ r.query \in Queries
    /\ Len(r.citations) = Len(r.sources)
    /\ r.confidence_score = _calculate_confidence(r.sources)

----------------------------------------------------------------------------
(* The provisional scores of the providers *)

\* the list has a source of this url, score and type
Yields(srcs, url, score, type) ==
    \E j \in 1..Len(srcs) :
        /\ srcs[j].url = url
        /\ srcs[j].relevance_score = score
        /\ srcs[j].source_type = type

\* C36: an ambiguous title yields the page of its first option as an
\* encyclopedia source of provisional relevance 0.6, a title that resolves
\* yields its page with 0.7, and every paper yields an academic source
\* with 0.9.
C36_DisambiguationFallback ==
    fn_done =>
        /\ \A i \in 1..Len(fn_args.kinds) :
            /\ fn_args.kinds[i] = "disambiguation" =>
                  Yields(fn_out.wikipedia, FirstOption, 6, "encyclopedia")
            /\ fn_args.kinds[i] = "page" =>
                  Yields(fn_out.wikipedia, PageNames[i], 7, "encyclopedia")
        /\ \A i \in 1..Len(fn_args.papers) :
              Yields(fn_out.arxiv, fn_args.papers[i], 9, "academic")

----------------------------------------------------------------------------
(* Research with the backend down *)

\* C37: with the backend down, every source of the result is a source
\* search returned, with the score the adapter gave it; the ranking and
\* the confidence are those of the provisional scores.
C37_NoRescoreWhenUnloaded ==
    Returned /\ ~model_loaded /\ fault_at = "none"
    => /\ \A i \in 1..Len(last_result.sources) :
            \E j \in 1..Len(found) :
                /\ found[j].url = last_result.sources[i].url
                /\ found[j].relevance_score
                       = last_result.sources[i].relevance_score
       /\ last_result.sources = _filter_best_sources(found, max_sources)
       /\ last_result.confidence_score
              = _calculate_confidence(_filter_best_sources(found, max_sources))

C37_Witness ==
    /\ Returned /\ ~model_loaded /\ fault_at = "none"
    /\ Len(last_result.sources) = 2
    /\ last_result.sources[1].relevance_score = 9
    /\ last_result.sources[1].source_type = "academic"
    /\ last_result.sources[2].relevance_score = 7
    /\ last_result.sources[2].source_type = "encyclopedia"

----------------------------------------------------------------------------
(* Content extraction in the program as loaded *)

\* C38: extract_content gives the empty string for the url of every
\* source a research call handles, no enhancement step changes a source's
\* content, and no research call reaches the rate limiter: its list and
\* the record of its wait calls stay empty.
C38_ExtractNeverFetches ==
    /\ \A i \in 1..Len(enhance_log) :
        /\ extract_content(enhance_log[i].before.url) = ""
        /\ ~extract_calls_wait(enhance_log[i].before.url)
        /\ enhance_log[i].after.content = enhance_log[i].before.content
    /\ Returned /\ fault_at = "none" =>
        \A i \in 1..Len(last_result.sources) :
            \E j \in 1..Len(found) :
                /\ found[j].url = last_result.sources[i].url
                /\ found[j].content = last_result.sources[i].content
    /\ rl_requests = <<>>
    /\ rl_log = <<>>

C38_Witness ==
    /\ Returned /\ fault_at = "none"
    /\ Len(enhance_log) = 2
    /\ enhance_log[1].before.source_type = "web"
    /\ enhance_log[1].extract_failed
    /\ \E i \in 1..Len(last_result.sources) :
          /\ last_result.sources[i].source_type = "web"
          /\ last_result.sources[i].content = enhance_log[1].before.content
    /\ rl_log = <<>>

----------------------------------------------------------------------------
(* What enhancement leaves alone *)

\* the same source, whatever became of its content and score
SameSource(a, b) ==
    /\ a.url = b.url
    /\ a.title = b.title
    /\ a.source_type = b.source_type

\* C39: the list _enhance_sources hands on has the sources search
\* returned, each at its place, whatever the outcome of extension and
\* re-scoring for each of them; extension is tried for web sources only,
\* so a source of another type keeps its content.
C39_EnhancementKeepsList ==
    /\ \A i \in 1..Len(enhance_log) :
        /\ i <= Len(found)
        /\ SameSource(enhance_log[i].before, found[i])
        /\ SameSource(enhance_log[i].after, found[i])
        /\ enhance_log[i].extract_failed =>
              enhance_log[i].before.source_type = "web"
        /\ enhance_log[i].before.source_type # "web" =>
              enhance_log[i].after.content = found[i].content
    /\ pc = "enhance" =>
        /\ Len(sources) = Len(found)
        /\ \A i \in 1..Len(sources) : SameSource(sources[i], found[i])
    /\ pc = "filter" =>
        /\ Len(sources) = Len(found)
        /\ \A i \in 1..Len(sources) :
              /\ SameSource(sources[i], found[i])
              /\ sources[i] = enhance_log[i].after

C39_Witness ==
    /\ pc = "filter"
    /\ model_loaded
    /\ Len(sources) = 2
    /\ Len(enhance_log) = 2
    /\ sources[1].source_type = "web"
    /\ enhance_log[1].extract_failed
    /\ enhance_log[1].eval_raised
    /\ ~enhance_log[2].eval_raised
    /\ sources[2].relevance_score # found[2].relevance_score
    /\ sources[2].url = found[2].url

====
